---- MODULE Spec2Model ----
(***************************************************************************)
(* jwt-waf core: the TTL store (InMemoryStore), the safe JWT decoder, the  *)
(* nine detection rules and the WAF engine, as a state machine.            *)
(*                                                                         *)
(* Strings are sequences of symbols.  A symbol is a one-character string,  *)
(* or a whole literal of the source (a key namespace such as               *)
(* "waf:expired:") that no input can contain in part.                      *)
(***************************************************************************)
EXTENDS Integers, Sequences, FiniteSets, TLC

VARIABLES
    now,          \* Date.now(), in ms
    store,        \* InMemoryStore.store : Map<string, StoredValue>
    pc,           \* per caller: where its pending increment() call is suspended
    ret,          \* what the last completed store call returned; the answer of
                  \* the middleware to the last HTTP request; what an observer
                  \* noted about the last analysed request
    decoded,      \* decodeJwt: its input and its outcome; in the specifications
                  \* of the rules, what is kept outside the engine (the
                  \* operator's ledger, the history of uses, the notifiers'
                  \* outbox, the store that is never swept)
    engine,       \* WafEngine: mode, blockThreshold, rules
    result        \* outcome of the last analyze / analyzeRequest call

vars == <<now, store, pc, ret, decoded, engine, result>>

(***************************************************************************)
(* Bounds of the model.                                                    *)
(***************************************************************************)
NCallers == 3        \* concurrent callers of increment
MaxTicks == 3        \* the clock advances by at most MaxTicks * TickMs
TickMs == 500        \* the smallest step of the clock, in ms
MaxCount == 2        \* a counter is incremented while it is below this value
MaxRequests == 2     \* requests analysed by the engine in one behaviour
EngineTickMs == 61000 \* the step of the clock between requests, in ms
MaxEvents == 31      \* requests one client sends to one counting rule
CountTickMs == 400   \* the client's distance, in ms, from the ends of a window

(***************************************************************************)
(* JavaScript values.                                                      *)
(***************************************************************************)
\* undefined, for an optional number (expiresAt, ttlSeconds, exp, nbf)
Undefined == 0 - 1
\* NaN, the result of parseInt on a string with no leading digit
NaN == 0 - 2
\* null, the result of get for a missing key; no string holds this symbol
Null == <<"<null>">>
\* ms per second: Date.now() + ttlSeconds * 1000
MsPerSec == 1000
\* the clock when the store is constructed
T0 == 10000

\* truthiness of an optional number: undefined, NaN and 0 are falsy
TruthyNum(n) == n # Undefined /\ n # NaN /\ n # 0
\* truthiness of a string or null: null and "" are falsy
TruthyStr(s) == s # Null /\ s # <<>>

\* `const x = await p; ...`: p settles once and the rest runs on its value
Await(p, Then(_)) == CHOOSE out \in {Then(x) : x \in {p}} : TRUE

Max(a, b) == IF a >= b THEN a ELSE b
Min(a, b) == IF a <= b THEN a ELSE b

Digits == <<"0", "1", "2", "3", "4", "5", "6", "7", "8", "9">>
IsDigit(c) == \E i \in 1..10 : Digits[i] = c
DigitVal(c) == (CHOOSE i \in 1..10 : Digits[i] = c) - 1

RECURSIVE DecimalOf(_)
DecimalOf(n) ==
    IF n < 10 THEN <<Digits[n + 1]>>
    ELSE Append(DecimalOf(n \div 10), Digits[(n % 10) + 1])

\* Number.prototype.toString for a non-negative integer or NaN
NumToString(n) == IF n = NaN THEN <<"N", "a", "N">> ELSE DecimalOf(n)

RECURSIVE ParseDigits(_, _, _)
ParseDigits(s, i, acc) ==
    IF i > Len(s) \/ ~IsDigit(s[i]) THEN acc
    ELSE ParseDigits(s, i + 1, acc * 10 + DigitVal(s[i]))

\* parseInt(s, 10): the leading digits of s, NaN when there are none
ParseInt(s) ==
    IF Len(s) = 0 \/ ~IsDigit(s[1]) THEN NaN ELSE ParseDigits(s, 1, 0)

\* a + b on numbers, NaN absorbing
Plus(a, b) == IF a = NaN \/ b = NaN THEN NaN ELSE a + b

\* String.prototype.startsWith
StartsWith(s, p) == Len(p) <= Len(s) /\ SubSeq(s, 1, Len(p)) = p

\* index of the first occurrence of symbol c in s, 0 when there is none
FirstIndex(s, c) ==
    IF \E i \in 1..Len(s) : s[i] = c
    THEN CHOOSE i \in 1..Len(s) : s[i] = c /\ \A j \in 1..(i - 1) : s[j] # c
    ELSE 0

\* s.replace(c, ''): only the first occurrence of c is removed
ReplaceFirst(s, c) ==
    LET i == FirstIndex(s, c)
    IN  IF i = 0 THEN s ELSE SubSeq(s, 1, i - 1) \o SubSeq(s, i + 1, Len(s))

(***************************************************************************)
(* InMemoryStore (store/memory.ts).  A StoredValue is                      *)
(* [value, expiresAt]; the map is a function on the keys it holds.         *)
(***************************************************************************)
EmptyStore == [k \in {} |-> [value |-> <<>>, expiresAt |-> Undefined]]

Put(st, k, e) == [x \in DOMAIN st \cup {k} |-> IF x = k THEN e ELSE st[x]]
Remove(st, k) == [x \in DOMAIN st \ {k} |-> st[x]]

\* the TTL check of get and cleanup: stored.expiresAt && now > stored.expiresAt
Expired(e, t) == TruthyNum(e.expiresAt) /\ t > e.expiresAt

\* get without the lazy eviction: an expired entry is reported absent but kept
StoreGetKeepsExpired(st, k, t) ==
    IF k \in DOMAIN st /\ ~Expired(st[k], t)
    THEN [value |-> st[k].value, store |-> st]
    ELSE [value |-> Null, store |-> st]

\* get(key) at time t: the value returned and the map afterwards
StoreGet(st, k, t) ==
    IF k \notin DOMAIN st THEN [value |-> Null, store |-> st]
    ELSE IF Expired(st[k], t) THEN [value |-> Null, store |-> Remove(st, k)]
    ELSE [value |-> st[k].value, store |-> st]

\* set(key, value, ttlSeconds?) at time t
StoreSet(st, k, v, ttl, t) ==
    Put(st, k, [value |-> v,
                expiresAt |-> IF TruthyNum(ttl) THEN t + ttl * MsPerSec
                              ELSE Undefined])

\* increment, after `await this.get(key)`: the new value from what get returned
IncNewValue(current, delta) ==
    Plus(IF TruthyStr(current) THEN ParseInt(current) ELSE 0, delta)

\* increment: the ttlSeconds it hands to set ("keep the existing TTL")
IncTtl(st, k, t) ==
    IF k \in DOMAIN st /\ TruthyNum(st[k].expiresAt)
    THEN Max(0, (st[k].expiresAt - t) \div MsPerSec)
    ELSE Undefined

\* increment, second half: compute, read the entry again, set
IncWrite(st, k, current, delta, t) ==
    StoreSet(st, k, NumToString(IncNewValue(current, delta)), IncTtl(st, k, t), t)

\* increment(key, delta) run without interruption at time t
StoreIncrement(st, k, delta, t) ==
    Await(StoreGet(st, k, t), LAMBDA g :
        [value |-> IncNewValue(g.value, delta),
         store |-> IncWrite(g.store, k, g.value, delta, t)])

\* delete(key)
StoreDelete(st, k) == Remove(st, k)

\* expire(key, ttlSeconds) at time t: nothing when the key is not in the map
StoreExpire(st, k, ttl, t) ==
    IF k \in DOMAIN st
    THEN [st EXCEPT ![k].expiresAt = t + ttl * MsPerSec]
    ELSE st

\* keys(pattern) at time t
StoreKeys(st, pattern, t) ==
    LET prefix == ReplaceFirst(pattern, "*")
    IN  {k \in DOMAIN st :
            /\ StartsWith(k, prefix)
            /\ (~TruthyNum(st[k].expiresAt) \/ t <= st[k].expiresAt)}

\* cleanup() at time t, the body of the sweep timer
StoreCleanup(st, t) ==
    [k \in {x \in DOMAIN st : ~Expired(st[x], t)} |-> st[k]]

\* stored.expiresAt of key k as an observer reads it: Undefined when the key
\* is absent or has no expiry
ExpiresAtOf(st, k) == IF k \in DOMAIN st THEN st[k].expiresAt ELSE Undefined

\* the counter under key k: 0 when the key is absent
CounterOf(st, k) == IF k \in DOMAIN st THEN ParseInt(st[k].value) ELSE 0

(***************************************************************************)
(* The store as a shared object: every operation but increment runs to its *)
(* end without suspension; increment is suspended at `await this.get(key)` *)
(* and at `await this.set(...)`, where other callers run.                  *)
(***************************************************************************)
Callers == 1..NCallers

IdlePc == [at |-> "idle", key |-> <<>>, delta |-> 0, current |-> Null, newValue |-> 0]
NoRet == [op |-> "none", key |-> <<>>, stored |-> FALSE, value |-> Null,
          keys |-> {}, num |-> 0]
NoDecoded == [has |-> FALSE]
NoEngine == [constructed |-> FALSE]
NoResult == [called |-> FALSE, n |-> 0]

\* keys, values, TTLs and patterns the callers of the store use
StoreKeySet == {<<"b">>, <<"*", "b">>}
StoreValues == {<<"1">>}
StoreTtls == {1, 2}
StorePrefixes == {<<>>, <<"b">>, <<"*", "b">>}
StoreTicks == {TickMs, 2 * TickMs}

Get(k) ==
    LET g == StoreGet(store, k, now)
    IN  /\ store' = g.store
        /\ ret' = [NoRet EXCEPT !.op = "get", !.key = k, !.value = g.value,
                                !.stored = (k \in DOMAIN store)]
        /\ UNCHANGED <<now, pc, decoded, engine, result>>

Set(k, v, ttl) ==
    /\ store' = StoreSet(store, k, v, ttl, now)
    /\ ret' = [NoRet EXCEPT !.op = "set", !.key = k]
    /\ UNCHANGED <<now, pc, decoded, engine, result>>

Delete(k) ==
    /\ store' = StoreDelete(store, k)
    /\ ret' = [NoRet EXCEPT !.op = "delete", !.key = k]
    /\ UNCHANGED <<now, pc, decoded, engine, result>>

Expire(k, ttl) ==
    /\ store' = StoreExpire(store, k, ttl, now)
    /\ ret' = [NoRet EXCEPT !.op = "expire", !.key = k]
    /\ UNCHANGED <<now, pc, decoded, engine, result>>

Keys(pattern) ==
    /\ ret' = [NoRet EXCEPT !.op = "keys", !.key = pattern,
                            !.keys = StoreKeys(store, pattern, now)]
    /\ UNCHANGED <<now, store, pc, decoded, engine, result>>

Cleanup ==
    /\ store' = StoreCleanup(store, now)
    /\ store' # store
    /\ ret' = [NoRet EXCEPT !.op = "cleanup"]
    /\ UNCHANGED <<now, pc, decoded, engine, result>>

\* increment(k, delta) is called: get runs, then the caller is suspended
IncStart(c, k, delta) ==
    /\ pc[c].at = "idle"
    /\ LET g == StoreGet(store, k, now)
       IN  /\ store' = g.store
           /\ pc' = [pc EXCEPT ![c] = [IdlePc EXCEPT !.at = "get", !.key = k,
                                          !.delta = delta, !.current = g.value]]
    /\ ret' = NoRet
    /\ UNCHANGED <<now, decoded, engine, result>>

\* the caller resumes with what get returned, and runs up to `await this.set`
IncResume(c) ==
    /\ pc[c].at = "get"
    /\ store' = IncWrite(store, pc[c].key, pc[c].current, pc[c].delta, now)
    /\ pc' = [pc EXCEPT ![c].at = "set",
                        ![c].newValue = IncNewValue(pc[c].current, pc[c].delta)]
    /\ ret' = NoRet
    /\ UNCHANGED <<now, decoded, engine, result>>

\* the caller resumes after set and returns newValue
IncReturn(c) ==
    /\ pc[c].at = "set"
    /\ pc' = [pc EXCEPT ![c].at = "done"]
    /\ ret' = [NoRet EXCEPT !.op = "increment", !.key = pc[c].key,
                            !.num = pc[c].newValue]
    /\ UNCHANGED <<now, store, decoded, engine, result>>

\* a finished caller may call again
IncAgain(c) ==
    /\ pc[c].at = "done"
    /\ pc' = [pc EXCEPT ![c] = IdlePc]
    /\ UNCHANGED <<now, store, ret, decoded, engine, result>>

\* Date.now() moves on
Tick(d, horizon) ==
    /\ now + d <= T0 + horizon
    /\ now' = now + d
    /\ UNCHANGED <<store, pc, ret, decoded, engine, result>>

\* the counter under k is below the bound of the model
BelowMaxCount(k) == k \in DOMAIN store => ParseInt(store[k].value) < MaxCount

InitStore ==
    /\ now = T0
    /\ store = EmptyStore
    /\ pc = [c \in Callers |-> IdlePc]
    /\ ret = NoRet
    /\ decoded = NoDecoded
    /\ engine = NoEngine
    /\ result = NoResult

\* one caller at a time in the store, the clock and the sweep running
NextStore ==
    \/ \E k \in StoreKeySet : Get(k)
    \/ \E k \in StoreKeySet, v \in StoreValues, ttl \in StoreTtls \cup {Undefined} :
          Set(k, v, ttl)
    \/ \E k \in StoreKeySet : Delete(k)
    \/ \E k \in StoreKeySet, ttl \in StoreTtls : Expire(k, ttl)
    \/ \E p \in StorePrefixes : Keys(p \o <<"*">>)
    \/ Cleanup
    \/ \E k \in StoreKeySet : BelowMaxCount(k) /\ IncStart(1, k, 1)
    \/ IncResume(1)
    \/ IncReturn(1)
    \/ IncAgain(1)
    \/ \E d \in StoreTicks : Tick(d, MaxTicks * TickMs)

SpecStore == InitStore /\ [][NextStore]_vars

\* NCallers callers, each calling increment once, on an empty store
IncKeySet == {<<"a">>, <<"b">>}

NextIncrement ==
    \/ \E c \in Callers, k \in IncKeySet : IncStart(c, k, 1)
    \/ \E c \in Callers : IncResume(c)
    \/ \E c \in Callers : IncReturn(c)

SpecIncrement == InitStore /\ [][NextIncrement]_vars

(***************************************************************************)
(* Two stores side by side: `store` is an InMemoryStore whose sweep timer  *)
(* fires at arbitrary moments, `decoded` is an InMemoryStore whose sweep   *)
(* never runs.  Both receive the same calls at the same times; `ret` keeps *)
(* what the last call returned from each (`value`, `keys` from the swept   *)
(* store, `unswept` from the other).                                       *)
(***************************************************************************)
Paired(op, k, value, keys, unswept) ==
    [op |-> op, key |-> k, value |-> value, keys |-> keys, unswept |-> unswept]

PairedGet(k) ==
    \E g \in {StoreGet(store, k, now)}, h \in {StoreGet(decoded, k, now)} :
        /\ store' = g.store
        /\ decoded' = h.store
        /\ ret' = Paired("get", k, g.value, {}, h.value)
        /\ UNCHANGED <<now, pc, engine, result>>

PairedSet(k, v, ttl) ==
    /\ store' = StoreSet(store, k, v, ttl, now)
    /\ decoded' = StoreSet(decoded, k, v, ttl, now)
    /\ ret' = Paired("set", k, Null, {}, Null)
    /\ UNCHANGED <<now, pc, engine, result>>

PairedIncrement(k) ==
    /\ CounterOf(store, k) < MaxCount /\ CounterOf(decoded, k) < MaxCount
    /\ \E i \in {StoreIncrement(store, k, 1, now)},
          j \in {StoreIncrement(decoded, k, 1, now)} :
           /\ store' = i.store
           /\ decoded' = j.store
           /\ ret' = Paired("increment", k, NumToString(i.value), {},
                            NumToString(j.value))
    /\ UNCHANGED <<now, pc, engine, result>>

PairedDelete(k) ==
    /\ store' = StoreDelete(store, k)
    /\ decoded' = StoreDelete(decoded, k)
    /\ ret' = Paired("delete", k, Null, {}, Null)
    /\ UNCHANGED <<now, pc, engine, result>>

PairedExpire(k, ttl) ==
    /\ store' = StoreExpire(store, k, ttl, now)
    /\ decoded' = StoreExpire(decoded, k, ttl, now)
    /\ ret' = Paired("expire", k, Null, {}, Null)
    /\ UNCHANGED <<now, pc, engine, result>>

PairedKeys(pattern) ==
    /\ ret' = Paired("keys", pattern, Null, StoreKeys(store, pattern, now),
                     StoreKeys(decoded, pattern, now))
    /\ UNCHANGED <<now, store, decoded, pc, engine, result>>

\* the sweep timer of `store` fires
Sweep ==
    /\ store' = StoreCleanup(store, now)
    /\ store' # store
    /\ UNCHANGED <<now, decoded, pc, ret, engine, result>>

InitSweep ==
    /\ now = T0
    /\ store = EmptyStore
    /\ pc = [c \in Callers |-> IdlePc]
    /\ ret = Paired("none", <<>>, Null, {}, Null)
    /\ decoded = EmptyStore
    /\ engine = NoEngine
    /\ result = NoResult

NextSweep ==
    \/ \E k \in StoreKeySet : PairedGet(k)
    \/ \E k \in StoreKeySet, v \in StoreValues, ttl \in StoreTtls \cup {Undefined} :
          PairedSet(k, v, ttl)
    \/ \E k \in StoreKeySet : PairedIncrement(k)
    \/ \E k \in StoreKeySet : PairedDelete(k)
    \/ \E k \in StoreKeySet, ttl \in StoreTtls : PairedExpire(k, ttl)
    \/ \E p \in StorePrefixes : PairedKeys(p \o <<"*">>)
    \/ Sweep
    \/ \E d \in StoreTicks : Tick(d, MaxTicks * TickMs)

SpecSweep == InitSweep /\ [][NextSweep]_vars

(***************************************************************************)
(* decodeJwt (engine/jwt-decoder.ts).                                      *)
(*                                                                         *)
(* A token is what split('.') and the decoding of its segments see:        *)
(*   isString  whether the value is a string at all (split exists)         *)
(*   nparts    the number of segments split('.') yields                    *)
(*   header    JSON.parse(base64UrlDecode(parts[0])): "throws", "null" or  *)
(*             an "object" with its alg, typ and other fields              *)
(*   payload   JSON.parse(base64UrlDecode(parts[1])), likewise             *)
(*   sig       the third segment as written in the token                   *)
(* HMAC-SHA256 followed by base64url is a function of (secret, header      *)
(* segment, payload segment) without collisions.                           *)
(* The reason strings are sequences of words; "expired" stands for the     *)
(* source's word for expiry, "signature" for its word for signature.       *)
(***************************************************************************)
PNull == [parse |-> "null", exp |-> Undefined, nbf |-> Undefined,
          jti |-> <<>>, sub |-> <<>>]
PThrows == [PNull EXCEPT !.parse = "throws"]
PObject(exp, nbf, jti, sub) ==
    [parse |-> "object", exp |-> exp, nbf |-> nbf, jti |-> jti, sub |-> sub]

HNull == [parse |-> "null", alg |-> <<>>, typ |-> <<>>, suspicious |-> FALSE,
          fieldCount |-> 0]
HThrows == [HNull EXCEPT !.parse = "throws"]
HObject(alg, typ, suspicious, fieldCount) ==
    [parse |-> "object", alg |-> alg, typ |-> typ, suspicious |-> suspicious,
     fieldCount |-> fieldCount]

\* createHmac('sha256', secret).update(`${headerB64}.${payloadB64}`).digest, base64url
Hmac(secret, header, payload) == <<"hmac", secret, header, payload>>
Garbage == <<"garbage">>

MkToken(n, h, p, sig) ==
    [isString |-> TRUE, nparts |-> n, header |-> h, payload |-> p, sig |-> sig]
\* a token signed with HS256 under `secret`
Signed(h, p, secret) == MkToken(3, h, p, Hmac(secret, h, p))
\* a value that is not a string (undefined), on which split does not exist
NotAString == [isString |-> FALSE, nparts |-> 0, header |-> HThrows,
               payload |-> PThrows, sig |-> Garbage]

Includes(s, w) == \E i \in 1..Len(s) : s[i] = w

ReasonMalformed == <<"JWT format is wrong: 3 parts (header.payload.signature) are needed">>
ReasonPayload == <<"payload decoding failed">>
ReasonExpired == <<"the token has", "expired">>
ReasonSecret == <<"signature", "verification needs a secret">>
ReasonAlg(alg) == <<"unsupported algorithm:">> \o alg \o <<"only HS256 is supported">>
ReasonSignature == <<"signature", "verification failed">>
ReasonNotYet == <<"the token is not valid yet">>
ReasonVerifyError == <<"signature", "verification raised an error">>
ReasonUnexpected == <<"JWT decoding raised an error:", "message">>

Returned(payload, isValid, reason) ==
    [thrown |-> FALSE, payload |-> payload, isValid |-> isValid,
     invalidReason |-> reason]
\* an exception leaving the function
Thrown == [thrown |-> TRUE, payload |-> PNull, isValid |-> FALSE,
           invalidReason |-> <<>>]

\* payload.exp && payload.exp * 1000 < Date.now()
ExpCheckFails(payload, t) == TruthyNum(payload.exp) /\ payload.exp * MsPerSec < t
\* payload.nbf && payload.nbf * 1000 > Date.now()
NbfCheckFails(payload, t) == TruthyNum(payload.nbf) /\ payload.nbf * MsPerSec > t

\* the verify branch answering a signature mismatch without the payload
VerifyBlockDropsPayload(token, options, t) ==
    LET header == token.header
        payload == token.payload
    IN  IF header.parse # "object" THEN Thrown
        ELSE IF header.alg # <<"HS256">>
             THEN Returned(payload, FALSE, ReasonAlg(header.alg))
        ELSE IF Hmac(options.secret, token.header, token.payload) # token.sig
             THEN Returned(PNull, FALSE, ReasonSignature)
        ELSE IF payload.parse = "null" THEN Thrown
        ELSE IF ExpCheckFails(payload, t)
             THEN Returned(payload, FALSE, ReasonExpired)
        ELSE IF NbfCheckFails(payload, t)
             THEN Returned(payload, FALSE, ReasonNotYet)
        ELSE Returned(payload, TRUE, <<>>)

\* the inner try block of the verify branch; Thrown is what its catch receives
VerifyBlock(token, options, t) ==
    LET header == token.header
        payload == token.payload
    IN  IF header.parse # "object" THEN Thrown
        ELSE IF header.alg # <<"HS256">>
             THEN Returned(payload, FALSE, ReasonAlg(header.alg))
        ELSE IF Hmac(options.secret, token.header, token.payload) # token.sig
             THEN Returned(payload, FALSE, ReasonSignature)
        ELSE IF payload.parse = "null" THEN Thrown
        ELSE IF ExpCheckFails(payload, t)
             THEN Returned(payload, FALSE, ReasonExpired)
        ELSE IF NbfCheckFails(payload, t)
             THEN Returned(payload, FALSE, ReasonNotYet)
        ELSE Returned(payload, TRUE, <<>>)

\* the outer try block; Thrown is what the outer catch receives
DecodeBlock(token, options, t) ==
    IF ~token.isString THEN Thrown
    ELSE IF token.nparts # 3 THEN Returned(PNull, FALSE, ReasonMalformed)
    ELSE IF token.payload.parse = "throws"
         THEN Returned(PNull, FALSE, ReasonPayload)
    ELSE IF ~options.present THEN Thrown
    ELSE IF ~options.verify
         THEN IF token.payload.parse = "null" THEN Thrown
              ELSE IF ExpCheckFails(token.payload, t)
                   THEN Returned(token.payload, FALSE, ReasonExpired)
              ELSE Returned(token.payload, TRUE, <<>>)
    ELSE IF ~TruthyStr(options.secret)
         THEN Returned(token.payload, FALSE, ReasonSecret)
    ELSE LET v == VerifyBlock(token, options, t)
         IN  IF v.thrown
             THEN Returned(token.payload, FALSE, ReasonVerifyError)
             ELSE v

\* decodeJwt without its outer catch
DecodeJwtUncaught(token, options, t) == DecodeBlock(token, options, t)

\* decodeJwt(token, options) at time t
DecodeJwt(token, options, t) ==
    LET r == DecodeBlock(token, options, t)
    IN  IF r.thrown THEN Returned(PNull, FALSE, ReasonUnexpected) ELSE r

\* the inputs of decodeJwt
Secrets == {<<"s", "1">>, <<"s", "2">>}
DecHeaders ==
    {HThrows, HNull} \cup
    {HObject(alg, <<"JWT">>, FALSE, 2) :
        alg \in {<<"HS256">>, <<"none">>, <<"RS256">>, <<>>}}
\* exp, nbf in seconds: T0 is second 10
DecExps == {Undefined, 0, 5, 10, 11, 20}
DecNbfs == {Undefined, 5, 11, 20}
DecPayloads ==
    {PThrows, PNull} \cup
    {PObject(exp, nbf, <<"j">>, <<"u">>) : exp \in DecExps, nbf \in DecNbfs}
DecTokens ==
    {NotAString} \cup
    {MkToken(n, h, p, sig) :
        n \in {2, 4}, h \in {HObject(<<"HS256">>, <<"JWT">>, FALSE, 2)},
        p \in {PObject(20, Undefined, <<"j">>, <<"u">>)}, sig \in {Garbage}} \cup
    {MkToken(3, h, p, Garbage) : h \in DecHeaders, p \in DecPayloads} \cup
    {Signed(h, p, s) : h \in DecHeaders, p \in DecPayloads, s \in Secrets}
DecOptions ==
    {[present |-> FALSE, verify |-> FALSE, secret |-> <<>>]} \cup
    {[present |-> TRUE, verify |-> v, secret |-> s] :
        v \in BOOLEAN, s \in Secrets \cup {<<>>}}

NoOut == Returned(PNull, FALSE, <<"not called">>)

\* a caller holding a token and options calls decodeJwt
Decode ==
    /\ decoded.has
    /\ ~decoded.called
    /\ decoded' = [decoded EXCEPT !.called = TRUE, !.at = now,
                      !.out = DecodeJwt(decoded.token, decoded.options, now)]
    /\ UNCHANGED <<now, store, pc, ret, engine, result>>

InitDecode ==
    /\ now = T0
    /\ store = EmptyStore
    /\ pc = [c \in Callers |-> IdlePc]
    /\ ret = NoRet
    /\ \E token \in DecTokens, options \in DecOptions :
          decoded = [has |-> TRUE, called |-> FALSE, token |-> token,
                     options |-> options, at |-> 0, out |-> NoOut]
    /\ engine = NoEngine
    /\ result = NoResult

NextDecode ==
    \/ Decode
    \/ \E d \in StoreTicks : ~decoded.called /\ Tick(d, MaxTicks * TickMs)

SpecDecode == InitDecode /\ [][NextDecode]_vars

(***************************************************************************)
(* Risk events and the rules (rules/*.ts).                                 *)
(*                                                                         *)
(* A rule's analyze is run at time t against the map st; `down` says that  *)
(* the Store behind the engine rejects every operation.  It yields whether *)
(* analyze threw, the RuleResult (ruleName, score) and the map afterwards. *)
(* A path is the sequence of its segments, an ip a sequence of symbols.    *)
(***************************************************************************)
\* buildRiskEvent(requestInfo, decodeResult)
BuildRiskEvent(req, dec) ==
    [token |-> req.token, payload |-> dec.payload, isValid |-> dec.isValid,
     invalidReason |-> dec.invalidReason, ip |-> req.ip, path |-> req.path]

\* extractUserId(payload): payload.sub when truthy
ExtractUserId(payload) ==
    IF payload.parse # "object" THEN <<>> ELSE payload.sub

\* BaseRule.createResult: the score clamped into 0..100
CreateResult(name, score) == [ruleName |-> name, score |-> Min(100, Max(0, score))]
\* BaseRule.passResult
PassResult(name) == [ruleName |-> name, score |-> 0]

Ran(res, st) == [threw |-> FALSE, result |-> res, store |-> st]
Threw(name, st) == [threw |-> TRUE, result |-> PassResult(name), store |-> st]

\* `count = await store.increment(key); if (count === 1) await store.expire(key, window)`
CountInWindow(st, key, window, t) ==
    Await(StoreIncrement(st, key, 1, t), LAMBDA inc :
        [count |-> inc.value,
         store |-> IF inc.value = 1 THEN StoreExpire(inc.store, key, window, t)
                   ELSE inc.store])

\* BaseRule.incrementCounter(store, key, delta, ttl)
IncrementCounter(st, key, delta, ttl, t) ==
    Await(StoreIncrement(st, key, delta, t), LAMBDA inc :
        [count |-> inc.value,
         store |-> IF TruthyNum(ttl) THEN StoreExpire(inc.store, key, ttl, t)
                   ELSE inc.store])

\* the shape shared by the four windowed counting rules with a try/catch
WindowRule(name, key, window, threshold, score, st, t, down) ==
    IF down THEN Ran(CreateResult(name, 0), st)
    ELSE Await(CountInWindow(st, key, window, t), LAMBDA c :
             Ran(CreateResult(name, IF c.count >= threshold THEN score ELSE 0),
                 c.store))

ExpiredTokenFlood(event, st, t, down) ==
    LET name == "ExpiredTokenFlood"
    IN  IF event.isValid THEN Ran(CreateResult(name, 0), st)
        ELSE IF ~Includes(event.invalidReason, "expired")
             THEN Ran(CreateResult(name, 0), st)
        ELSE WindowRule(name, <<"waf:expired:">> \o event.ip, 60, 5, 30, st, t, down)

InvalidSignatureSpike(event, st, t, down) ==
    LET name == "InvalidSignatureSpike"
    IN  IF event.isValid THEN Ran(CreateResult(name, 0), st)
        ELSE IF ~Includes(event.invalidReason, "signature")
             THEN Ran(CreateResult(name, 0), st)
        ELSE WindowRule(name, <<"waf:invalid_sig:">> \o event.ip, 300, 10, 40,
                        st, t, down)

\* refreshPatterns: each of the six ends in /refresh$
IsRefreshEndpoint(path) == Len(path) > 0 /\ path[Len(path)] = "/refresh"

RefreshEndpointAbuse(event, st, t, down) ==
    LET name == "RefreshEndpointAbuse"
        userId == ExtractUserId(event.payload)
        identifier == IF userId # <<>> THEN userId ELSE event.ip
    IN  IF ~IsRefreshEndpoint(event.path) THEN Ran(CreateResult(name, 0), st)
        ELSE WindowRule(name, <<"waf:refresh:">> \o identifier, 600, 20, 35,
                        st, t, down)

\* segments i.. of path are exactly `segs`, and more of the path follows
HasSegments(path, segs, more) ==
    \E i \in 1..Len(path) :
        /\ i + Len(segs) - 1 + more <= Len(path)
        /\ SubSeq(path, i, i + Len(segs) - 1) = segs

\* privilegePatterns
IsPrivilegedEndpoint(path) ==
    \/ HasSegments(path, <<"/admin">>, 1)
    \/ HasSegments(path, <<"/api", "/users", "/delete">>, 0)
    \/ HasSegments(path, <<"/api", "/user", "/delete">>, 0)
    \/ HasSegments(path, <<"/api", "/config">>, 1)
    \/ HasSegments(path, <<"/api", "/settings">>, 1)
    \/ HasSegments(path, <<"/api", "/system">>, 1)
    \/ HasSegments(path, <<"/management">>, 1)

PrivilegeEndpointWeighting(event, st, t, down) ==
    LET name == "PrivilegeEndpointWeighting"
    IN  Ran(CreateResult(name, IF IsPrivilegedEndpoint(event.path) THEN 20 ELSE 0), st)

\* event.payload?.jti
JtiOf(event) == IF event.payload.parse = "object" THEN event.payload.jti ELSE <<>>

MultiIpTokenUse(event, st, t, down) ==
    LET name == "MultiIpTokenUse"
        jti == JtiOf(event)
        keyPrefix == <<"waf:multi_ip:">> \o jti
        ipKey == keyPrefix \o <<":">> \o event.ip
    IN  IF jti = <<>> THEN Ran(CreateResult(name, 0), st)
        ELSE IF down THEN Ran(CreateResult(name, 0), st)
        ELSE Await(StoreSet(st, ipKey, <<"1">>, 600, t), LAMBDA st1 :
             Await(Cardinality(StoreKeys(st1, keyPrefix \o <<":", "*">>, t)),
                   LAMBDA uniqueIpCount :
             Ran(CreateResult(name, IF uniqueIpCount >= 3 THEN 45 ELSE 0), st1)))

\* TokenReplayDetection counting before it looks at the jti
TokenReplayDetectionCountsFirst(event, st, t, down) ==
    WindowRule("TokenReplayDetection", <<"waf:replay:">> \o JtiOf(event), 60, 30, 25,
               st, t, down)

TokenReplayDetection(event, st, t, down) ==
    LET name == "TokenReplayDetection"
        jti == JtiOf(event)
    IN  IF jti = <<>> THEN Ran(CreateResult(name, 0), st)
        ELSE WindowRule(name, <<"waf:replay:">> \o jti, 60, 30, 25, st, t, down)

\* String.prototype.toUpperCase on the algorithm names in use
UpperSymbol(c) ==
    CASE c = "hs256" -> "HS256"
      [] c = "none" -> "NONE"
      [] c = "None" -> "NONE"
      [] OTHER -> c
ToUpperCase(s) == [i \in 1..Len(s) |-> UpperSymbol(s[i])]

SAFE_ALGORITHMS ==
    {<<"HS256">>, <<"HS384">>, <<"HS512">>, <<"RS256">>, <<"RS384">>, <<"RS512">>,
     <<"ES256">>, <<"ES384">>, <<"ES512">>}

\* the header a rule parses out of the token: HNull stands for null
RuleHeader(token) ==
    IF ~token.isString \/ token.nparts < 2 \/ token.header.parse # "object"
    THEN HNull ELSE token.header

\* AlgorithmConfusionRule.extractAlgorithm: <<>> stands for null
ExtractAlgorithm(token) == RuleHeader(token).alg

IsSuspiciousAlgorithm(alg) ==
    \/ alg = <<>>
    \/ ToUpperCase(alg) = <<"NONE">>
    \/ ToUpperCase(alg) \notin SAFE_ALGORITHMS

AlgorithmConfusion(event, st, t, down) ==
    LET name == "AlgorithmConfusionRule"
        weight == 8
    IN  IF ~IsSuspiciousAlgorithm(ExtractAlgorithm(event.token))
        THEN Ran(PassResult(name), st)
        ELSE IF down THEN Threw(name, st)
        ELSE Await(IncrementCounter(st, <<"rule:alg-confusion:">> \o event.ip,
                                    1, 300, t), LAMBDA c :
             Ran([ruleName |-> name,
                  score |-> IF c.count >= 3 THEN weight * 5 ELSE 0], c.store))

\* HeaderForgeryRule.isForgedHeader(extractHeader(token))
IsForgedHeader(token) ==
    LET header == RuleHeader(token)
    IN  \/ header.parse # "object"
        \/ header.typ # <<>> /\ header.typ # <<"JWT">>
        \/ header.alg = <<>>
        \/ header.suspicious
        \/ header.fieldCount > 5

HeaderForgery(event, st, t, down) ==
    LET name == "HeaderForgeryRule"
        weight == 7
    IN  IF ~IsForgedHeader(event.token) THEN Ran(PassResult(name), st)
        ELSE IF down THEN Threw(name, st)
        ELSE Await(IncrementCounter(st, <<"rule:header-forgery:">> \o event.ip,
                                    1, 300, t), LAMBDA c :
             Ran([ruleName |-> name,
                  score |-> IF c.count >= 2 THEN weight * 5 ELSE 0], c.store))

\* BlacklistTokenRule scoring weight * 10 + 5 instead of weight * 5
BlacklistTokenHeavy(event, st, t, down) ==
    LET name == "BlacklistTokenRule"
        weight == 10
        jti == JtiOf(event)
    IN  IF jti = <<>> THEN Ran(PassResult(name), st)
        ELSE IF down THEN Threw(name, st)
        ELSE Await(StoreGet(st, <<"blacklist:">> \o jti, t), LAMBDA g :
             IF ~TruthyStr(g.value) THEN Ran(PassResult(name), g.store)
             ELSE Await(IncrementCounter(g.store,
                                         <<"blacklist:", "attempt:">> \o event.ip,
                                         1, 600, t), LAMBDA c :
                  Ran([ruleName |-> name, score |-> weight * 10 + 5], c.store)))

BlacklistToken(event, st, t, down) ==
    LET name == "BlacklistTokenRule"
        weight == 10
        jti == JtiOf(event)
    IN  IF jti = <<>> THEN Ran(PassResult(name), st)
        ELSE IF down THEN Threw(name, st)
        ELSE Await(StoreGet(st, <<"blacklist:">> \o jti, t), LAMBDA g :
             IF ~TruthyStr(g.value) THEN Ran(PassResult(name), g.store)
             ELSE Await(IncrementCounter(g.store,
                                         <<"blacklist:", "attempt:">> \o event.ip,
                                         1, 600, t), LAMBDA c :
                  Ran([ruleName |-> name, score |-> weight * 5], c.store)))

\* BlacklistManager.addToBlacklist(jti, ttl = 86400): the value is the ISO time
AddToBlacklistStore(st, jti, ttl, t) ==
    StoreSet(st, <<"blacklist:">> \o jti, <<"ISO">> \o NumToString(t), ttl, t)

\* a rule of the application whose analyze rejects on every call
ThrowingRule(event, st, t, down) == Threw("ThrowingRule", st)
\* a rule of the application whose analyze returns score 0 on every call
ZeroRule(event, st, t, down) == Ran([ruleName |-> "ZeroRule", score |-> 0], st)

\* rule.analyze(event, store), by the rule's name
RuleAnalyze(name, event, st, t, down) ==
    CASE name = "ExpiredTokenFlood" -> ExpiredTokenFlood(event, st, t, down)
      [] name = "InvalidSignatureSpike" -> InvalidSignatureSpike(event, st, t, down)
      [] name = "RefreshEndpointAbuse" -> RefreshEndpointAbuse(event, st, t, down)
      [] name = "PrivilegeEndpointWeighting" ->
            PrivilegeEndpointWeighting(event, st, t, down)
      [] name = "MultiIpTokenUse" -> MultiIpTokenUse(event, st, t, down)
      [] name = "TokenReplayDetection" -> TokenReplayDetection(event, st, t, down)
      [] name = "AlgorithmConfusionRule" -> AlgorithmConfusion(event, st, t, down)
      [] name = "HeaderForgeryRule" -> HeaderForgery(event, st, t, down)
      [] name = "BlacklistTokenRule" -> BlacklistToken(event, st, t, down)
      [] name = "ThrowingRule" -> ThrowingRule(event, st, t, down)
      [] name = "ZeroRule" -> ZeroRule(event, st, t, down)

(***************************************************************************)
(* WafEngine (engine/index.ts).                                            *)
(***************************************************************************)
\* an aggregation that keeps the highest score instead of the sum
AccumulateMax(totalScore, score) == Max(totalScore, score)

\* an aggregation that keeps the latest positive score
AccumulateLatest(totalScore, score) == IF score > 0 THEN score ELSE totalScore

\* totalScore += result.score
Accumulate(totalScore, score) == totalScore + score

RECURSIVE RunRules(_, _, _, _, _, _, _, _)
\* a rule loop that ends at the first rule that throws
RunRulesAbort(rules, i, event, st, t, down, ruleResults, totalScore) ==
    IF i > Len(rules)
    THEN [ruleResults |-> ruleResults, totalScore |-> totalScore, store |-> st]
    ELSE IF ~rules[i].enabled
         THEN RunRules(rules, i + 1, event, st, t, down, ruleResults, totalScore)
    ELSE Await(RuleAnalyze(rules[i].name, event, st, t, down), LAMBDA r :
         IF r.threw
         THEN [ruleResults |-> Append(ruleResults,
                                      [ruleName |-> rules[i].name, score |-> 0,
                                       error |-> TRUE]),
               totalScore |-> totalScore, store |-> r.store]
         ELSE Await(Append(ruleResults,
                           [ruleName |-> r.result.ruleName,
                            score |-> r.result.score, error |-> FALSE]),
                    LAMBDA pushed :
              Await(Accumulate(totalScore, r.result.score), LAMBDA total :
              RunRules(rules, i + 1, event, r.store, t, down, pushed, total))))

\* the rule loop of analyze from rule i on: results, total and map so far
RunRules(rules, i, event, st, t, down, ruleResults, totalScore) ==
    IF i > Len(rules)
    THEN [ruleResults |-> ruleResults, totalScore |-> totalScore, store |-> st]
    ELSE IF ~rules[i].enabled
         THEN RunRules(rules, i + 1, event, st, t, down, ruleResults, totalScore)
    ELSE Await(RuleAnalyze(rules[i].name, event, st, t, down), LAMBDA r :
         IF r.threw
         THEN Await(Append(ruleResults,
                           [ruleName |-> rules[i].name, score |-> 0,
                            error |-> TRUE]), LAMBDA pushed :
              RunRules(rules, i + 1, event, r.store, t, down, pushed, totalScore))
         ELSE Await(Append(ruleResults,
                           [ruleName |-> r.result.ruleName,
                            score |-> r.result.score, error |-> FALSE]),
                    LAMBDA pushed :
              Await(Accumulate(totalScore, r.result.score), LAMBDA total :
              RunRules(rules, i + 1, event, r.store, t, down, pushed, total))))

\* determineDecision with the comparison of BLOCK mode made strict
DetermineDecisionStrict(mode, blockThreshold, totalScore) ==
    IF mode = "OBSERVE" THEN "OBSERVE"
    ELSE IF totalScore > blockThreshold THEN "BLOCK"
    ELSE "ALLOW"

\* determineDecision without the OBSERVE branch
DetermineDecisionNoObserve(mode, blockThreshold, totalScore) ==
    IF totalScore >= blockThreshold THEN "BLOCK" ELSE "ALLOW"

\* a decision by the score bands 0-30, 31-79 and 80-100
DetermineDecisionBands(mode, blockThreshold, totalScore) ==
    IF totalScore <= 30 THEN "ALLOW"
    ELSE IF totalScore <= 79 THEN "OBSERVE"
    ELSE "BLOCK"

\* WafEngine.determineDecision(totalScore)
DetermineDecision(mode, blockThreshold, totalScore) ==
    IF mode = "OBSERVE" THEN "OBSERVE"
    ELSE IF totalScore >= blockThreshold THEN "BLOCK"
    ELSE "ALLOW"

\* an argument that is null or undefined: reading a property of it throws
NullArgument == [isNull |-> TRUE]
IsNullArgument(x) == "isNull" \in DOMAIN x

\* a call of the engine that raised `code` instead of returning
Raised(code, st) ==
    [raised |-> code, decision |-> "none", totalScore |-> 0, ruleResults |-> <<>>,
     store |-> st]

\* an analyze that leaves the store alone in OBSERVE mode
AnalyzeBlockDryObserve(eng, event, st, t, down) ==
    IF IsNullArgument(event) THEN Raised("TypeError", st)
    ELSE Await(RunRules(eng.rules, 1, event, st, t, down, <<>>, 0), LAMBDA run :
        [raised |-> "none",
         decision |-> DetermineDecision(eng.mode, eng.blockThreshold, run.totalScore),
         totalScore |-> run.totalScore, ruleResults |-> run.ruleResults,
         store |-> IF eng.mode = "OBSERVE" THEN st ELSE run.store])

\* the try block of analyze: the AnalysisResult and the map afterwards
AnalyzeBlock(eng, event, st, t, down) ==
    IF IsNullArgument(event) THEN Raised("TypeError", st)
    ELSE Await(RunRules(eng.rules, 1, event, st, t, down, <<>>, 0), LAMBDA run :
        [raised |-> "none",
         decision |-> DetermineDecision(eng.mode, eng.blockThreshold, run.totalScore),
         totalScore |-> run.totalScore, ruleResults |-> run.ruleResults,
         store |-> run.store])

\* analyze without its catch
EngineAnalyzeUncaught(eng, event, st, t, down) ==
    AnalyzeBlock(eng, event, st, t, down)

\* WafEngine.analyze(event): whatever the try block throws is raised as one
\* WafError with code ENGINE_ANALYSIS_ERROR
EngineAnalyze(eng, event, st, t, down) ==
    Await(AnalyzeBlock(eng, event, st, t, down), LAMBDA a :
        IF a.raised # "none" THEN Raised("ENGINE_ANALYSIS_ERROR", a.store) ELSE a)

\* the try block of analyzeRequest: decode, build the event, analyze
AnalyzeRequestBlock(eng, req, st, t, down) ==
    IF IsNullArgument(req) THEN Raised("TypeError", st)
    ELSE Await(DecodeJwt(req.token,
                         [present |-> TRUE, verify |-> eng.verifySignature,
                          secret |-> eng.jwtSecret], t), LAMBDA dec :
         Await(BuildRiskEvent(req, dec), LAMBDA event :
             EngineAnalyze(eng, event, st, t, down)))

\* WafEngine.analyzeRequest(requestInfo)
EngineAnalyzeRequest(eng, req, st, t, down) ==
    Await(AnalyzeRequestBlock(eng, req, st, t, down), LAMBDA a :
        IF a.raised # "none" THEN Raised("ENGINE_ANALYSIS_ERROR", a.store) ELSE a)

\* the nine built-in rules, each constructed enabled, in the order of rules/index.ts
BuiltInRules ==
    [i \in 1..9 |->
        [name |-> <<"ExpiredTokenFlood", "InvalidSignatureSpike",
                    "RefreshEndpointAbuse", "PrivilegeEndpointWeighting",
                    "MultiIpTokenUse", "TokenReplayDetection",
                    "AlgorithmConfusionRule", "HeaderForgeryRule",
                    "BlacklistTokenRule">>[i],
         enabled |-> TRUE]]

(***************************************************************************)
(* The engine at work: one request is analysed at a time, an operator      *)
(* blacklists tokens, the clock moves on.                                  *)
(***************************************************************************)
HGood == HObject(<<"HS256">>, <<"JWT">>, FALSE, 2)
PGood == PObject(100000, Undefined, <<"j">>, <<"u">>)
TokGood == Signed(HGood, PGood, <<"s", "1">>)
TokExpired == Signed(HGood, PObject(5, Undefined, <<"j">>, <<"u">>), <<"s", "1">>)
TokNone == MkToken(3, HObject(<<"none">>, <<"JWT">>, TRUE, 3),
                   PObject(Undefined, Undefined, <<>>, <<>>), Garbage)
TokBadSig == MkToken(3, HGood, PGood, Garbage)

Request(token, ip, path) == [token |-> token, ip |-> ip, path |-> path]
EngineRequests ==
    {Request(TokGood, <<"ip1">>, <<"/api", "/users">>),
     Request(TokGood, <<"ip2">>, <<"/admin", "/users">>),
     Request(TokGood, <<"ip3">>, <<"/api", "/users">>),
     Request(TokExpired, <<"ip1">>, <<"/api", "/auth", "/refresh">>),
     Request(TokNone, <<"ip1">>, <<"/admin", "/users">>),
     Request(TokBadSig, <<"ip2">>, <<"/api", "/users">>)}

\* events handed to analyze directly: an invalid token without a payload
EngineEvents ==
    {BuildRiskEvent(Request(NotAString, <<"ip1">>, <<"/management", "/jobs">>),
                    Returned(PNull, FALSE, ReasonExpired))}

\* configurations that validateConfig accepts
EngineConfigs ==
    {[constructed |-> TRUE, mode |-> mode, blockThreshold |-> th,
      rules |-> BuiltInRules, verifySignature |-> v,
      jwtSecret |-> IF v THEN <<"s", "1">> ELSE <<>>] :
        mode \in {"OBSERVE", "BLOCK"}, th \in {20, 55}, v \in BOOLEAN}
    \cup
    {[constructed |-> TRUE, mode |-> mode, blockThreshold |-> 0,
      rules |-> <<[name |-> "PrivilegeEndpointWeighting", enabled |-> FALSE],
                  [name |-> "HeaderForgeryRule", enabled |-> TRUE]>>,
      verifySignature |-> FALSE, jwtSecret |-> <<>>] :
        mode \in {"OBSERVE", "BLOCK"}}
    \cup
    {[constructed |-> TRUE, mode |-> "BLOCK", blockThreshold |-> 55,
      rules |-> <<[name |-> "PrivilegeEndpointWeighting", enabled |-> TRUE],
                  [name |-> "ThrowingRule", enabled |-> TRUE],
                  [name |-> "HeaderForgeryRule", enabled |-> TRUE],
                  [name |-> "BlacklistTokenRule", enabled |-> TRUE]>>,
      verifySignature |-> FALSE, jwtSecret |-> <<>>]}

\* what the caller holds after its n-th call: the AnalysisResult, or the error
\* (nullArgument remembers whether the call was given a null argument)
Outcome(a, n, down, arg) ==
    IF a.raised # "none"
    THEN [called |-> FALSE, n |-> n, down |-> down, raised |-> a.raised,
          nullArgument |-> IsNullArgument(arg)]
    ELSE [called |-> TRUE, n |-> n, down |-> down, raised |-> "none",
          nullArgument |-> IsNullArgument(arg),
          decision |-> a.decision, totalScore |-> a.totalScore,
          ruleResults |-> a.ruleResults]

\* await engine.analyzeRequest(req), the store failing throughout when `down`
AnalyzeRequest(req, down) ==
    /\ result.n < MaxRequests
    /\ \E a \in {EngineAnalyzeRequest(engine, req, store, now, down)} :
           /\ store' = a.store
           /\ result' = Outcome(a, result.n + 1, down, req)
    /\ UNCHANGED <<now, pc, ret, decoded, engine>>

\* await engine.analyze(event) on an event the caller built
Analyze(event, down) ==
    /\ result.n < MaxRequests
    /\ \E a \in {EngineAnalyze(engine, event, store, now, down)} :
           /\ store' = a.store
           /\ result' = Outcome(a, result.n + 1, down, event)
    /\ UNCHANGED <<now, pc, ret, decoded, engine>>

\* new BlacklistManager(store).addToBlacklist(jti)
AddToBlacklist(jti) ==
    /\ store' = AddToBlacklistStore(store, jti, 86400, now)
    /\ store' # store
    /\ UNCHANGED <<now, pc, ret, decoded, engine, result>>

Init ==
    /\ now = T0
    /\ store = EmptyStore
    /\ pc = [c \in Callers |-> IdlePc]
    /\ ret = NoRet
    /\ decoded = NoDecoded
    /\ engine \in EngineConfigs
    /\ result = NoResult

Next ==
    \/ \E req \in EngineRequests \cup {NullArgument}, down \in BOOLEAN :
          AnalyzeRequest(req, down)
    \/ \E event \in EngineEvents \cup {NullArgument}, down \in BOOLEAN :
          Analyze(event, down)
    \/ AddToBlacklist(<<"j">>)
    \/ Tick(EngineTickMs, EngineTickMs)

Spec == Init /\ [][Next]_vars

(***************************************************************************)
(* validateConfig and the construction of the engine                       *)
(* (engine/config-validator.ts, engine/index.ts).                          *)
(*                                                                         *)
(* A config is what the checks read of it: mode is a string ("" stands for *)
(* a missing mode), blockThreshold is [def, n] (def FALSE for undefined    *)
(* or null), rules is [kind, list] with kind "missing", "object" (a value  *)
(* that is not an array) or "array", store says whether a store is given.  *)
(***************************************************************************)
NoConfig ==
    [present |-> FALSE, mode |-> "", blockThreshold |-> [def |-> FALSE, n |-> 0],
     rules |-> [kind |-> "missing", list |-> <<>>], store |-> FALSE,
     verifySignature |-> FALSE, jwtSecret |-> <<>>]

\* config.blockThreshold < 0 with the upper limit left out
ThresholdOutOfRangeLow(n) == n < 0

\* config.blockThreshold < 0 || config.blockThreshold > 100
ThresholdOutOfRange(n) == n < 0 \/ n > 100

\* the loop over config.rules from rule i on, ruleNames being the names seen
RECURSIVE ValidateRuleNames(_, _, _)
ValidateRuleNames(list, i, ruleNames) ==
    IF i > Len(list) THEN "OK"
    ELSE IF list[i].name = "" THEN "CONFIG_RULE_NAME_MISSING"
    ELSE IF list[i].name \in ruleNames THEN "CONFIG_RULE_NAME_DUPLICATE"
    ELSE ValidateRuleNames(list, i + 1, ruleNames \cup {list[i].name})

\* the checks in another order: threshold range right after its presence,
\* the rules before the store
ValidateConfigRangeFirst(config) ==
    IF ~config.present THEN "CONFIG_MISSING"
    ELSE IF config.mode = "" THEN "CONFIG_MODE_MISSING"
    ELSE IF ~config.blockThreshold.def THEN "CONFIG_THRESHOLD_MISSING"
    ELSE IF ThresholdOutOfRange(config.blockThreshold.n)
         THEN "CONFIG_THRESHOLD_OUT_OF_RANGE"
    ELSE IF config.rules.kind = "missing" THEN "CONFIG_RULES_MISSING"
    ELSE IF config.rules.kind # "array" THEN "CONFIG_RULES_NOT_ARRAY"
    ELSE IF ValidateRuleNames(config.rules.list, 1, {}) # "OK"
         THEN ValidateRuleNames(config.rules.list, 1, {})
    ELSE IF ~config.store THEN "CONFIG_STORE_MISSING"
    ELSE IF config.verifySignature /\ ~TruthyStr(config.jwtSecret)
         THEN "CONFIG_JWT_SECRET_MISSING"
    ELSE "OK"

\* validateConfig(config): the code of the WafError it throws, "OK" when it returns
ValidateConfig(config) ==
    IF ~config.present THEN "CONFIG_MISSING"
    ELSE IF config.mode = "" THEN "CONFIG_MODE_MISSING"
    ELSE IF ~config.blockThreshold.def THEN "CONFIG_THRESHOLD_MISSING"
    ELSE IF config.rules.kind = "missing" THEN "CONFIG_RULES_MISSING"
    ELSE IF ~config.store THEN "CONFIG_STORE_MISSING"
    ELSE IF ThresholdOutOfRange(config.blockThreshold.n)
         THEN "CONFIG_THRESHOLD_OUT_OF_RANGE"
    ELSE IF config.rules.kind # "array" THEN "CONFIG_RULES_NOT_ARRAY"
    ELSE IF ValidateRuleNames(config.rules.list, 1, {}) # "OK"
         THEN ValidateRuleNames(config.rules.list, 1, {})
    ELSE IF config.verifySignature /\ ~TruthyStr(config.jwtSecret)
         THEN "CONFIG_JWT_SECRET_MISSING"
    ELSE "OK"

\* new WafEngine(config): the engine, or the error that validateConfig threw
NewWafEngine(config) ==
    IF ValidateConfig(config) # "OK"
    THEN [constructed |-> FALSE, tried |-> TRUE, error |-> ValidateConfig(config),
          config |-> config]
    ELSE [constructed |-> TRUE, tried |-> TRUE, error |-> "OK", config |-> config,
          mode |-> config.mode, blockThreshold |-> config.blockThreshold.n,
          rules |-> config.rules.list, verifySignature |-> config.verifySignature,
          jwtSecret |-> config.jwtSecret]

\* the configs handed to the constructor
ConfigModes == {"", "OBSERVE", "BLOCK", "MONITOR"}
ConfigThresholds ==
    {[def |-> FALSE, n |-> 0]} \cup {[def |-> TRUE, n |-> n] : n \in {0 - 1, 0, 20, 100, 101}}
RuleP == [name |-> "PrivilegeEndpointWeighting", enabled |-> TRUE]
RuleH == [name |-> "HeaderForgeryRule", enabled |-> TRUE]
RuleUnnamed == [name |-> "", enabled |-> TRUE]
ConfigRules ==
    {[kind |-> "missing", list |-> <<>>], [kind |-> "object", list |-> <<>>]} \cup
    {[kind |-> "array", list |-> l] :
        l \in {<<>>, <<RuleP>>, <<RuleP, RuleH>>, <<RuleP, RuleP>>,
               <<RuleP, RuleUnnamed>>, <<RuleP, RuleP, RuleUnnamed>>,
               <<RuleP, RuleUnnamed, RuleP>>}}
WafConfigs ==
    {NoConfig} \cup
    {[present |-> TRUE, mode |-> mode, blockThreshold |-> th, rules |-> rules,
      store |-> st, verifySignature |-> v, jwtSecret |-> secret] :
        mode \in ConfigModes, th \in ConfigThresholds, rules \in ConfigRules,
        st \in BOOLEAN, v \in BOOLEAN, secret \in {<<>>, <<"s", "1">>}}

\* new WafEngine(config) on the config at hand
Construct ==
    /\ ~engine.tried
    /\ engine' = NewWafEngine(engine.config)
    /\ UNCHANGED <<now, store, pc, ret, decoded, result>>

\* a request analysed by an engine that was constructed
AnalyzeConstructed(req) ==
    /\ engine.constructed
    /\ AnalyzeRequest(req, FALSE)

InitConfig ==
    /\ now = T0
    /\ store = EmptyStore
    /\ pc = [c \in Callers |-> IdlePc]
    /\ ret = NoRet
    /\ decoded = NoDecoded
    /\ \E config \in WafConfigs :
          engine = [constructed |-> FALSE, tried |-> FALSE, error |-> "OK",
                    config |-> config]
    /\ result = NoResult

NextConfig ==
    \/ Construct
    \/ \E req \in EngineRequests : AnalyzeConstructed(req)

SpecConfig == InitConfig /\ [][NextConfig]_vars

(***************************************************************************)
(* The Express middleware (createWafMiddleware).                           *)
(*                                                                         *)
(* An HTTP request is what the middleware reads of it: the Authorization   *)
(* header as [scheme, token] (scheme "none" when the header is missing),   *)
(* x-forwarded-for as the list of its comma-separated entries, x-real-ip,  *)
(* req.ip and req.path.  The answer is the number of calls of next(), the  *)
(* status sent (0 when none is sent) and whether onBlocked / onObserve     *)
(* were called.                                                            *)
(***************************************************************************)
NoToken == [isString |-> TRUE, nparts |-> 0, header |-> HThrows,
            payload |-> PThrows, sig |-> <<>>]

\* extractToken(req): what follows "Bearer ", NoToken standing for null and ""
ExtractToken(req) ==
    IF req.authorization.scheme = "none" THEN NoToken
    ELSE IF req.authorization.scheme # "Bearer " THEN NoToken
    ELSE req.authorization.token

\* extractIp(req)
ExtractIp(req) ==
    IF req.forwarded # <<>> THEN req.forwarded[1]
    ELSE IF req.realIp # <<>> THEN req.realIp
    ELSE IF req.ip # <<>> THEN req.ip
    ELSE <<"unknown">>

Answer(nextCalls, status, blocked, observed) ==
    [nextCalls |-> nextCalls, status |-> status, onBlocked |-> blocked,
     onObserve |-> observed]

\* the catch of the middleware answering 500 instead of calling next()
OnEngineErrorFailClosed(observed) == Answer(0, 500, FALSE, observed)

\* the catch of the middleware: next()
OnEngineError(observed) == Answer(1, 0, FALSE, observed)

\* the switch with OBSERVE answered like BLOCK
OnDecisionObserveBlocks(options, decision) ==
    IF decision = "ALLOW" THEN Answer(1, 0, FALSE, FALSE)
    ELSE IF decision \in {"OBSERVE", "BLOCK"}
         THEN IF options.onBlocked # "none" THEN Answer(0, 0, TRUE, FALSE)
              ELSE Answer(0, 403, FALSE, FALSE)
    ELSE Answer(1, 0, FALSE, FALSE)

\* the switch on result.decision; an onObserve that throws lands in the catch
OnDecision(options, decision) ==
    IF decision = "ALLOW" THEN Answer(1, 0, FALSE, FALSE)
    ELSE IF decision = "OBSERVE"
         THEN IF options.onObserve = "none" THEN Answer(1, 0, FALSE, FALSE)
              ELSE IF options.onObserve = "throws" THEN OnEngineError(TRUE)
              ELSE Answer(1, 0, FALSE, TRUE)
    ELSE IF decision = "BLOCK"
         THEN IF options.onBlocked # "none" THEN Answer(0, 0, TRUE, FALSE)
              ELSE Answer(0, 403, FALSE, FALSE)
    ELSE Answer(1, 0, FALSE, FALSE)

\* the middleware on a request without a token
OnNoToken(options) ==
    IF options.allowWithoutToken THEN Answer(1, 0, FALSE, FALSE)
    ELSE Answer(0, 401, FALSE, FALSE)

\* the requestInfo the middleware builds
RequestInfoOf(req) == Request(ExtractToken(req), ExtractIp(req), req.path)

HttpAuthorizations ==
    {[scheme |-> "none", token |-> NoToken], [scheme |-> "Basic ", token |-> TokGood],
     [scheme |-> "Bearer ", token |-> NoToken],
     [scheme |-> "Bearer ", token |-> TokGood],
     [scheme |-> "Bearer ", token |-> TokNone]}
HttpRequests ==
    {[authorization |-> auth, forwarded |-> ips[1], realIp |-> ips[2],
      ip |-> <<"ip1">>, path |-> path] :
        auth \in HttpAuthorizations,
        ips \in {<<<<>>, <<>>>>, <<<<>>, <<"ip2">>>>, <<<<<<"ip3">>, <<"ip9">>>>, <<"ip2">>>>},
        path \in {<<"/admin", "/users">>, <<"/api", "/users">>}}

\* the options of createWafMiddleware; wafConfig is the engine's config
MiddlewareOptions ==
    {[constructed |-> TRUE, mode |-> mode, blockThreshold |-> 20,
      rules |-> BuiltInRules, verifySignature |-> FALSE, jwtSecret |-> <<>>,
      allowWithoutToken |-> allow, onBlocked |-> blocked, onObserve |-> observe] :
        mode \in {"OBSERVE", "BLOCK"}, allow \in BOOLEAN,
        blocked \in {"none", "responds"}, observe \in {"none", "returns", "throws"}}

\* the middleware runs on req; `fault` says that the analysis of the engine
\* meets an exception outside the rules, so that analyzeRequest raises
Middleware(req, fault) ==
    /\ result.n < MaxRequests
    /\ IF ExtractToken(req) = NoToken
       THEN /\ ret' = [op |-> "middleware", hasToken |-> FALSE, raised |-> FALSE,
                       decision |-> "none", totalScore |-> 0,
                       answer |-> OnNoToken(engine)]
            /\ UNCHANGED <<store, result>>
       ELSE \E a \in {IF fault THEN Raised("ENGINE_ANALYSIS_ERROR", store)
                      ELSE EngineAnalyzeRequest(engine, RequestInfoOf(req), store,
                                                now, FALSE)} :
            /\ store' = a.store
            /\ result' = Outcome(a, result.n + 1, FALSE, RequestInfoOf(req))
            /\ ret' = [op |-> "middleware", hasToken |-> TRUE,
                       raised |-> a.raised # "none", decision |-> a.decision,
                       totalScore |-> a.totalScore,
                       answer |-> IF a.raised # "none" THEN OnEngineError(FALSE)
                                  ELSE OnDecision(engine, a.decision)]
    /\ UNCHANGED <<now, pc, decoded, engine>>

InitMiddleware ==
    /\ now = T0
    /\ store = EmptyStore
    /\ pc = [c \in Callers |-> IdlePc]
    /\ ret = NoRet
    /\ decoded = NoDecoded
    /\ engine \in MiddlewareOptions
    /\ result = NoResult

NextMiddleware ==
    \/ \E req \in HttpRequests, fault \in BOOLEAN : Middleware(req, fault)
    \/ Tick(EngineTickMs, EngineTickMs)

SpecMiddleware == InitMiddleware /\ [][NextMiddleware]_vars

(***************************************************************************)
(* One client against one counting rule: an engine that runs a single      *)
(* counting rule analyses, again and again, the request that the rule      *)
(* counts, while the clock moves through the rule's window.  `ret` keeps   *)
(* what an observer of the rule's counter key sees around the last call.   *)
(***************************************************************************)
SecretS1 == <<"s", "1">>

\* an engine that verifies signatures and runs the rules `names`
EngineOf(names) ==
    [constructed |-> TRUE, mode |-> "BLOCK", blockThreshold |-> 80,
     rules |-> [i \in 1..Len(names) |-> [name |-> names[i], enabled |-> TRUE]],
     verifySignature |-> TRUE, jwtSecret |-> SecretS1]

CountingRuleNames ==
    {"ExpiredTokenFlood", "InvalidSignatureSpike", "RefreshEndpointAbuse",
     "TokenReplayDetection", "AlgorithmConfusionRule", "HeaderForgeryRule"}

\* the request from ip1 that the rule counts, and the counter key it goes to
CountedRequestOf(name) ==
    CASE name = "ExpiredTokenFlood" ->
            Request(TokExpired, <<"ip1">>, <<"/api", "/users">>)
      [] name = "InvalidSignatureSpike" ->
            Request(TokBadSig, <<"ip1">>, <<"/api", "/users">>)
      [] name = "RefreshEndpointAbuse" ->
            Request(TokGood, <<"ip1">>, <<"/api", "/auth", "/refresh">>)
      [] name = "TokenReplayDetection" ->
            Request(TokGood, <<"ip1">>, <<"/api", "/users">>)
      [] OTHER -> Request(TokNone, <<"ip1">>, <<"/api", "/users">>)

CounterKeyOf(name) ==
    CASE name = "ExpiredTokenFlood" -> <<"waf:expired:", "ip1">>
      [] name = "InvalidSignatureSpike" -> <<"waf:invalid_sig:", "ip1">>
      [] name = "RefreshEndpointAbuse" -> <<"waf:refresh:", "u">>
      [] name = "TokenReplayDetection" -> <<"waf:replay:", "j">>
      [] name = "AlgorithmConfusionRule" -> <<"rule:alg-confusion:", "ip1">>
      [] name = "HeaderForgeryRule" -> <<"rule:header-forgery:", "ip1">>

\* the window of the rule, in seconds
WindowOf(name) ==
    CASE name \in {"ExpiredTokenFlood", "TokenReplayDetection"} -> 60
      [] name = "RefreshEndpointAbuse" -> 600
      [] OTHER -> 300

\* `start` is the time of the last call that took the count to 1, `elapsed`
\* the time between that call and the last call
NoObservation == [first |-> Undefined, at |-> Undefined, before |-> Undefined,
                  after |-> Undefined, count |-> 0, start |-> Undefined,
                  elapsed |-> Undefined]

\* the moments, in ms after T0, at which the client of a rule with window w
\* (in s) may act: shortly after T0, around the end of the window, and after it
CountMoments(w) ==
    {CountTickMs, w * MsPerSec - CountTickMs, w * MsPerSec,
     w * MsPerSec + CountTickMs}

\* await engine.analyzeRequest(the request the rule counts)
CountedRequest ==
    /\ result.n < MaxEvents
    /\ \E name \in {engine.rules[1].name} :
       \E a \in {EngineAnalyzeRequest(engine, CountedRequestOf(name), store, now,
                                      FALSE)} :
           /\ store' = a.store
           /\ result' = Outcome(a, result.n + 1, FALSE, CountedRequestOf(name))
           /\ ret' = [first |-> IF result.n = 0 THEN now ELSE ret.first,
                      at |-> now,
                      before |-> ExpiresAtOf(store, CounterKeyOf(name)),
                      after |-> ExpiresAtOf(a.store, CounterKeyOf(name)),
                      count |-> CounterOf(a.store, CounterKeyOf(name)),
                      start |-> IF CounterOf(a.store, CounterKeyOf(name)) = 1
                                THEN now ELSE ret.start,
                      elapsed |-> IF ret.start = Undefined THEN Undefined
                                  ELSE now - ret.start]
    /\ UNCHANGED <<now, pc, decoded, engine>>

\* Date.now() reaches T0 + m
AdvanceTo(m) ==
    /\ now < T0 + m
    /\ now' = T0 + m
    /\ UNCHANGED <<store, pc, ret, decoded, engine, result>>

InitCount ==
    /\ now = T0
    /\ store = EmptyStore
    /\ pc = [c \in Callers |-> IdlePc]
    /\ ret = NoObservation
    /\ decoded = NoDecoded
    /\ engine \in {EngineOf(<<name>>) : name \in CountingRuleNames}
    /\ result = NoResult

NextCount ==
    \/ CountedRequest
    \/ \E m \in CountMoments(WindowOf(engine.rules[1].name)) : AdvanceTo(m)

SpecCount == InitCount /\ [][NextCount]_vars

(***************************************************************************)
(* The counting rules once the traffic stops: the requests of SpecCount    *)
(* arrive until the client falls silent, and from then on only the clock   *)
(* moves, past every expiry a counted request can have set.                *)
(***************************************************************************)
\* ms after T0 at which the client is silent for good: later than the
\* expiry set by a request at the last moment of CountMoments(w)
SilenceMs(w) == 2 * w * MsPerSec + 2 * CountTickMs

\* the last request has been sent; Date.now() reaches T0 + SilenceMs
Silence ==
    /\ now < T0 + SilenceMs(WindowOf(engine.rules[1].name))
    /\ now' = T0 + SilenceMs(WindowOf(engine.rules[1].name))
    /\ UNCHANGED <<store, pc, ret, decoded, engine, result>>

NextSilence ==
    \/ now < T0 + SilenceMs(WindowOf(engine.rules[1].name)) /\ CountedRequest
    \/ \E m \in CountMoments(WindowOf(engine.rules[1].name)) : AdvanceTo(m)
    \/ Silence

\* time passes
SpecSilence == InitCount /\ [][NextSilence]_vars /\ WF_vars(Silence)

(***************************************************************************)
(* ExpiredTokenFlood under concurrent requests: several requests with an   *)
(* expired token from ip1 are in analyze at once on one store.  Each is    *)
(* suspended inside store.increment at `await this.get` and at             *)
(* `await this.set`, where the others run; `result` keeps the score that   *)
(* each request was given.                                                 *)
(***************************************************************************)
FloodCallers == 1..(NCallers + 2)
FloodKey == <<"waf:expired:", "ip1">>

\* after `count = await store.increment(key)`: expire on count 1, then the score
FloodScore(c) ==
    /\ pc[c].at = "done"
    /\ store' = IF pc[c].newValue = 1 THEN StoreExpire(store, FloodKey, 60, now)
                ELSE store
    /\ pc' = [pc EXCEPT ![c].at = "scored"]
    /\ result' = [result EXCEPT
                    !.n = @ + 1,
                    !.scores = Put(@, c, CreateResult("ExpiredTokenFlood",
                                      IF pc[c].newValue >= 5 THEN 30 ELSE 0).score)]
    /\ UNCHANGED <<now, ret, decoded, engine>>

InitFlood ==
    /\ now = T0
    /\ store = EmptyStore
    /\ pc = [c \in FloodCallers |-> IdlePc]
    /\ ret = NoRet
    /\ decoded = NoDecoded
    /\ engine = EngineOf(<<"ExpiredTokenFlood">>)
    /\ result = [called |-> FALSE, n |-> 0, scores |-> [c \in {} |-> 0]]

NextFlood ==
    \/ \E c \in FloodCallers : IncStart(c, FloodKey, 1)
    \/ \E c \in FloodCallers : IncResume(c)
    \/ \E c \in FloodCallers : IncReturn(c)
    \/ \E c \in FloodCallers : FloodScore(c)

SpecFlood == InitFlood /\ [][NextFlood]_vars

(***************************************************************************)
(* The combined scenario of rules.test.ts: one token (one jti) is used on  *)
(* an admin path from ip1, then from ip2, then again and again from ip3,   *)
(* against an engine with threshold 80, in BLOCK mode as in the test or in *)
(* OBSERVE mode, that runs MultiIpTokenUse, PrivilegeEndpointWeighting and *)
(* TokenReplayDetection.                                                   *)
(***************************************************************************)
CombinedRules ==
    <<"MultiIpTokenUse", "PrivilegeEndpointWeighting", "TokenReplayDetection">>

\* the n-th request of the scenario
CombinedRequestOf(n) ==
    Request(TokGood,
            IF n = 1 THEN <<"ip1">> ELSE IF n = 2 THEN <<"ip2">> ELSE <<"ip3">>,
            <<"/api", "/admin", "/config">>)

\* await combinedEngine.analyzeRequest(the next request of the scenario)
CombinedRequest ==
    /\ result.n < MaxEvents + 1
    /\ \E req \in {CombinedRequestOf(result.n + 1)} :
       \E a \in {EngineAnalyzeRequest(engine, req, store, now, FALSE)} :
           /\ store' = a.store
           /\ result' = Outcome(a, result.n + 1, FALSE, req)
           /\ ret' = [first |-> IF result.n = 0 THEN now ELSE ret.first,
                      at |-> now,
                      before |-> ExpiresAtOf(store, <<"waf:replay:", "j">>),
                      after |-> ExpiresAtOf(a.store, <<"waf:replay:", "j">>),
                      count |-> CounterOf(a.store, <<"waf:replay:", "j">>)]
    /\ UNCHANGED <<now, pc, decoded, engine>>

InitCombined ==
    /\ now = T0
    /\ store = EmptyStore
    /\ pc = [c \in Callers |-> IdlePc]
    /\ ret = NoObservation
    /\ decoded = NoDecoded
    /\ engine \in {[EngineOf(CombinedRules) EXCEPT !.mode = mode] :
                       mode \in {"BLOCK", "OBSERVE"}}
    /\ result = NoResult

NextCombined ==
    \/ CombinedRequest
    \/ \E m \in CountMoments(60) : AdvanceTo(m)

SpecCombined == InitCombined /\ [][NextCombined]_vars

(***************************************************************************)
(* BlacklistManager and BlacklistTokenRule: an operator adds jtis to the   *)
(* blacklist and removes them while requests are analysed by an engine     *)
(* that runs BlacklistTokenRule alone.  `decoded` is the operator's        *)
(* ledger: for each jti added and not removed since, when its TTL ends.    *)
(***************************************************************************)
NoLedger == [j \in {} |-> 0]

\* a valid token whose jti is the text "attempt:ip1"
TokAttempt ==
    Signed(HGood, PObject(100000, Undefined, <<"attempt:", "ip1">>, <<"u">>),
           SecretS1)

BlacklistTokens == {TokGood, TokAttempt}
BlacklistJtis == {t.payload.jti : t \in BlacklistTokens}

\* BlacklistManager.removeFromBlacklist(jti)
RemoveFromBlacklistStore(st, jti) == StoreDelete(st, <<"blacklist:">> \o jti)

\* BlacklistManager.isBlacklisted(jti) at time t: `result !== null`
IsBlacklisted(st, jti, t) == StoreGet(st, <<"blacklist:">> \o jti, t).value # Null

\* key.includes(':attempt:'): the symbol "attempt:" right after a symbol that
\* ends with ':'
IncludesAttempt(key) ==
    \E i \in 2..Len(key) : key[i] = "attempt:" /\ key[i - 1] \in {"blacklist:", ":"}

\* BlacklistManager.getAllBlacklisted() at time t
GetAllBlacklisted(st, t) ==
    {ReplaceFirst(key, "blacklist:") :
        key \in {k \in StoreKeys(st, <<"blacklist:", "*">>, t) : ~IncludesAttempt(k)}}

\* await manager.addToBlacklist(jti, ttl)
BlacklistAdd(jti, ttl) ==
    /\ store' = AddToBlacklistStore(store, jti, ttl, now)
    /\ decoded' = Put(decoded, jti, now + ttl * MsPerSec)
    /\ UNCHANGED <<now, pc, ret, engine, result>>

\* await manager.removeFromBlacklist(jti)
BlacklistRemove(jti) ==
    /\ store' = RemoveFromBlacklistStore(store, jti)
    /\ decoded' = Remove(decoded, jti)
    /\ UNCHANGED <<now, pc, ret, engine, result>>

\* await engine.analyzeRequest of a request from ip1 that carries `token`;
\* ret remembers its jti and whether the ledger lists the jti at this moment
BlacklistRequest(token) ==
    /\ result.n < MaxRequests
    /\ \E req \in {Request(token, <<"ip1">>, <<"/api", "/users">>)} :
       \E a \in {EngineAnalyzeRequest(engine, req, store, now, FALSE)} :
           /\ store' = a.store
           /\ result' = Outcome(a, result.n + 1, FALSE, req)
           /\ ret' = [jti |-> token.payload.jti,
                      listed |-> /\ token.payload.jti \in DOMAIN decoded
                                 /\ now <= decoded[token.payload.jti]]
    /\ UNCHANGED <<now, pc, decoded, engine>>

InitBlacklist ==
    /\ now = T0
    /\ store = EmptyStore
    /\ pc = [c \in Callers |-> IdlePc]
    /\ ret = [jti |-> <<>>, listed |-> FALSE]
    /\ decoded = NoLedger
    /\ engine = EngineOf(<<"BlacklistTokenRule">>)
    /\ result = NoResult

NextBlacklist ==
    \/ \E jti \in BlacklistJtis : BlacklistAdd(jti, 86400)
    \/ \E jti \in BlacklistJtis : BlacklistRemove(jti)
    \/ \E token \in BlacklistTokens : BlacklistRequest(token)
    \/ \E m \in CountMoments(86400) : AdvanceTo(m)

SpecBlacklist == InitBlacklist /\ [][NextBlacklist]_vars

(***************************************************************************)
(* MultiIpTokenUse alone: tokens are used from several IPs while the clock *)
(* moves through the 600 s window.  `decoded` is the history of uses that  *)
(* an observer of the traffic keeps: for each (jti, ip), when the jti was  *)
(* last used from the ip.                                                  *)
(***************************************************************************)
\* valid tokens with the jtis "j", "j:k" and "j*"
TokColon ==
    Signed(HGood, PObject(100000, Undefined, <<"j", ":", "k">>, <<"u">>), SecretS1)
TokStar ==
    Signed(HGood, PObject(100000, Undefined, <<"j", "*">>, <<"u">>), SecretS1)

MultiIpTokens == {TokGood, TokColon, TokStar}
MultiIpIps == {<<"ip1">>, <<"ip2">>, <<"ip3">>}

NoUses == [u \in {} |-> 0]

\* the IPs from which jti was used within the last 600 s, by the history
RecentIps(uses, jti, t) ==
    {ip \in MultiIpIps :
        /\ <<jti, ip>> \in DOMAIN uses
        /\ t - uses[<<jti, ip>>] <= 600 * MsPerSec}

\* await engine.analyzeRequest of a request from `ip` that carries `token`;
\* ret remembers the number of distinct IPs that used its jti, this one included
MultiIpRequest(token, ip) ==
    /\ result.n < MaxRequests + 2
    /\ \E req \in {Request(token, ip, <<"/api", "/data">>)} :
       \E a \in {EngineAnalyzeRequest(engine, req, store, now, FALSE)} :
           /\ store' = a.store
           /\ result' = Outcome(a, result.n + 1, FALSE, req)
           /\ decoded' = Put(decoded, <<token.payload.jti, ip>>, now)
           /\ ret' = [jti |-> token.payload.jti,
                      distinct |-> Cardinality(RecentIps(decoded',
                                                         token.payload.jti, now))]
    /\ UNCHANGED <<now, pc, engine>>

InitMultiIp ==
    /\ now = T0
    /\ store = EmptyStore
    /\ pc = [c \in Callers |-> IdlePc]
    /\ ret = [jti |-> <<>>, distinct |-> 0]
    /\ decoded = NoUses
    /\ engine = EngineOf(<<"MultiIpTokenUse">>)
    /\ result = NoResult

NextMultiIp ==
    \/ \E token \in MultiIpTokens, ip \in MultiIpIps : MultiIpRequest(token, ip)
    \/ \E m \in CountMoments(600) : AdvanceTo(m)

SpecMultiIp == InitMultiIp /\ [][NextMultiIp]_vars

(***************************************************************************)
(* Two engines that differ in the order of their rule lists only: each     *)
(* request is analysed by the engine on the store, and `ret` keeps what an *)
(* engine with the reordered list returns for the same request on the same *)
(* store contents at the same time (`after` is the store as the engine's   *)
(* own call left it).                                                      *)
(***************************************************************************)
\* orderings of a list of n rules: the reversal, the rotation by one place
\* and the exchanges of two neighbours
Orderings(n) ==
    {[i \in 1..n |-> n + 1 - i]}
    \cup {[i \in 1..n |-> (i % n) + 1]}
    \cup {[i \in 1..n |-> IF i = j THEN j + 1 ELSE IF i = j + 1 THEN j ELSE i] :
             j \in 1..(n - 1)}

\* the engine with its rule list in the order p
Reordered(eng, p) ==
    [eng EXCEPT !.rules = [i \in 1..Len(eng.rules) |-> eng.rules[p[i]]]]

OrderRequests ==
    {Request(TokGood, <<"ip1">>, <<"/admin", "/users">>),
     Request(TokExpired, <<"ip1">>, <<"/api", "/auth", "/refresh">>),
     Request(TokNone, <<"ip1">>, <<"/admin", "/users">>)}

\* await engine.analyzeRequest(req), and the same call on an engine whose
\* rules are in the order p
AnalyzeBothOrders(req, p) ==
    /\ result.n < MaxRequests
    /\ \E a \in {EngineAnalyzeRequest(engine, req, store, now, FALSE)} :
       \E b \in {EngineAnalyzeRequest(Reordered(engine, p), req, store, now,
                                      FALSE)} :
           /\ store' = a.store
           /\ result' = Outcome(a, result.n + 1, FALSE, req)
           /\ ret' = [raised |-> b.raised, totalScore |-> b.totalScore,
                      decision |-> b.decision, ruleResults |-> b.ruleResults,
                      store |-> b.store, after |-> a.store,
                      moved |-> {i \in DOMAIN p : p[i] # i}]
    /\ UNCHANGED <<now, pc, decoded, engine>>

InitOrder ==
    /\ now = T0
    /\ store = EmptyStore
    /\ pc = [c \in Callers |-> IdlePc]
    /\ ret = NoRet
    /\ decoded = NoDecoded
    /\ engine \in {c \in EngineConfigs : /\ c.mode = "BLOCK"
                                         /\ c.blockThreshold = 55
                                         /\ ~c.verifySignature}
    /\ result = NoResult

NextOrder ==
    \/ \E req \in OrderRequests, p \in Orderings(Len(engine.rules)) :
          AnalyzeBothOrders(req, p)
    \/ AddToBlacklist(<<"j">>)
    \/ Tick(EngineTickMs, EngineTickMs)

SpecOrder == InitOrder /\ [][NextOrder]_vars

(***************************************************************************)
(* Two engines with the same rules that differ in mode and blockThreshold  *)
(* only, each on a store of its own: every request is handed to both at    *)
(* the same time.  `engine`, `store` and `result` are the first engine,    *)
(* its store and what it returned; `decoded` holds the second engine and   *)
(* its store, `ret` what the second engine returned.                       *)
(***************************************************************************)
TwinThresholds == {20, 100}

\* the engines that differ from eng in mode or in blockThreshold
TwinsOf(eng) ==
    {[eng EXCEPT !.mode = m, !.blockThreshold = th] :
        m \in {"OBSERVE", "BLOCK"}, th \in TwinThresholds} \ {eng}

\* await engine.analyzeRequest(req) on both engines
AnalyzeTwins(req) ==
    /\ result.n < MaxRequests
    /\ \E a \in {EngineAnalyzeRequest(engine, req, store, now, FALSE)} :
       \E b \in {EngineAnalyzeRequest(decoded.engine, req, decoded.store, now,
                                      FALSE)} :
           /\ store' = a.store
           /\ result' = Outcome(a, result.n + 1, FALSE, req)
           /\ decoded' = [decoded EXCEPT !.store = b.store]
           /\ ret' = Outcome(b, result.n + 1, FALSE, req)
    /\ UNCHANGED <<now, pc, engine>>

\* addToBlacklist(jti) on the store of each engine
BlacklistTwins(jti) ==
    /\ store' = AddToBlacklistStore(store, jti, 86400, now)
    /\ decoded' = [decoded EXCEPT
                      !.store = AddToBlacklistStore(@, jti, 86400, now)]
    /\ store' # store
    /\ UNCHANGED <<now, pc, ret, engine, result>>

InitTwins ==
    /\ now = T0
    /\ store = EmptyStore
    /\ pc = [c \in Callers |-> IdlePc]
    /\ ret = NoResult
    /\ engine \in {c \in EngineConfigs : c.blockThreshold \notin TwinThresholds}
    /\ decoded \in {[engine |-> twin, store |-> EmptyStore] : twin \in TwinsOf(engine)}
    /\ result = NoResult

NextTwins ==
    \/ \E req \in EngineRequests : AnalyzeTwins(req)
    \/ BlacklistTwins(<<"j">>)
    \/ Tick(EngineTickMs, EngineTickMs)

SpecTwins == InitTwins /\ [][NextTwins]_vars

(***************************************************************************)
(* An engine configured with notifiers (README: notifiers,                 *)
(* notificationRules).  `decoded` is the outbox of the notification        *)
(* channels: how many events each configured notifier was handed.  The     *)
(* constructor copies mode, blockThreshold, logger, verifySignature and    *)
(* jwtSecret out of the config; analyzeRequest and analyze read            *)
(* config.rules and config.store and nothing else of it.                   *)
(***************************************************************************)
\* the notifiers of the config: a Slack and a Telegram channel
ConfiguredNotifiers == <<"SlackNotifier", "TelegramNotifier">>

NotifyingConfigs ==
    {[constructed |-> TRUE, mode |-> "BLOCK", blockThreshold |-> th,
      rules |-> BuiltInRules, verifySignature |-> TRUE, jwtSecret |-> SecretS1,
      notifiers |-> ConfiguredNotifiers,
      notificationRules |-> [onBlock |-> TRUE]] : th \in {20, 55}}

EmptyOutbox == [i \in DOMAIN ConfiguredNotifiers |-> 0]

InitNotify ==
    /\ now = T0
    /\ store = EmptyStore
    /\ pc = [c \in Callers |-> IdlePc]
    /\ ret = NoRet
    /\ decoded = EmptyOutbox
    /\ engine \in NotifyingConfigs
    /\ result = NoResult

NextNotify ==
    \/ \E req \in EngineRequests, down \in BOOLEAN : AnalyzeRequest(req, down)
    \/ Tick(EngineTickMs, EngineTickMs)

\* the event loop runs every handler that is ready
SpecNotify == InitNotify /\ [][NextNotify]_vars /\ WF_vars(NextNotify)

(***************************************************************************)
(* The rule loop of analyze, one step at a time (engine/index.ts).  `pc`   *)
(* is the position of the one analyze call in progress: the index of the   *)
(* loop, whether the rule at that index is awaited, the results pushed and *)
(* the total so far.  `ret` is the trace of the call: the rules in the     *)
(* order in which they were started and completed.  Between two steps the  *)
(* clock may move on.                                                      *)
(***************************************************************************)
LoopIdle == [at |-> "idle"]

\* the rule the loop visits at its i-th pass, taken from the end of the list
RuleAtFromEnd(rules, i) == rules[Len(rules) + 1 - i]

\* `for (const rule of this.config.rules)`: the rule of the i-th pass
RuleAt(rules, i) == rules[i]

\* analyze(event) is entered: ruleResults = [], totalScore = 0
LoopEnter(req) ==
    /\ pc.at = "idle"
    /\ result.n < MaxRequests
    /\ \E dec \in {DecodeJwt(req.token,
                             [present |-> TRUE, verify |-> engine.verifySignature,
                              secret |-> engine.jwtSecret], now)} :
          pc' = [at |-> "loop", i |-> 1, awaiting |-> FALSE,
                 event |-> BuildRiskEvent(req, dec), ruleResults |-> <<>>,
                 totalScore |-> 0]
    /\ ret' = <<>>
    /\ UNCHANGED <<now, store, decoded, engine, result>>

\* `if (!rule.enabled) continue`
LoopSkip ==
    /\ pc.at = "loop" /\ ~pc.awaiting /\ pc.i <= Len(engine.rules)
    /\ ~RuleAt(engine.rules, pc.i).enabled
    /\ pc' = [pc EXCEPT !.i = @ + 1]
    /\ UNCHANGED <<now, store, ret, decoded, engine, result>>

\* `await rule.analyze(event, this.config.store)` is called
LoopCall ==
    /\ pc.at = "loop" /\ ~pc.awaiting /\ pc.i <= Len(engine.rules)
    /\ RuleAt(engine.rules, pc.i).enabled
    /\ pc' = [pc EXCEPT !.awaiting = TRUE]
    /\ ret' = Append(ret, [step |-> "called",
                           name |-> RuleAt(engine.rules, pc.i).name])
    /\ UNCHANGED <<now, store, decoded, engine, result>>

\* the awaited rule settles: its result, or the error entry of the catch, is
\* pushed and the loop goes on
LoopSettle ==
    /\ pc.at = "loop" /\ pc.awaiting
    /\ \E rule \in {RuleAt(engine.rules, pc.i)} :
       \E r \in {RuleAnalyze(rule.name, pc.event, store, now, FALSE)} :
          /\ store' = r.store
          /\ pc' = [pc EXCEPT
                       !.awaiting = FALSE,
                       !.i = @ + 1,
                       !.ruleResults =
                           Append(@, IF r.threw
                                     THEN [ruleName |-> rule.name, score |-> 0,
                                           error |-> TRUE]
                                     ELSE [ruleName |-> r.result.ruleName,
                                           score |-> r.result.score,
                                           error |-> FALSE]),
                       !.totalScore = IF r.threw THEN @
                                      ELSE Accumulate(@, r.result.score)]
          /\ ret' = Append(ret, [step |-> "settled", name |-> rule.name,
                                 wrote |-> r.store # store])
    /\ UNCHANGED <<now, decoded, engine, result>>

\* the loop is over: the decision is taken and the AnalysisResult returned
LoopReturn ==
    /\ pc.at = "loop" /\ pc.i > Len(engine.rules)
    /\ result' = [called |-> TRUE, n |-> result.n + 1, down |-> FALSE,
                  raised |-> "none", nullArgument |-> FALSE,
                  decision |-> DetermineDecision(engine.mode, engine.blockThreshold,
                                                 pc.totalScore),
                  totalScore |-> pc.totalScore, ruleResults |-> pc.ruleResults]
    /\ pc' = LoopIdle
    /\ UNCHANGED <<now, store, ret, decoded, engine>>

InitLoop ==
    /\ now = T0
    /\ store = EmptyStore
    /\ pc = LoopIdle
    /\ ret = <<>>
    /\ decoded = NoDecoded
    /\ engine \in EngineConfigs
    /\ result = NoResult

\* the requests of the engine and one whose token is not a string, so that
\* the event has no payload
LoopRequests ==
    EngineRequests \cup {Request(NotAString, <<"ip3">>, <<"/api", "/users">>)}

NextLoop ==
    \/ \E req \in LoopRequests : LoopEnter(req)
    \/ LoopSkip
    \/ LoopCall
    \/ LoopSettle
    \/ LoopReturn
    \/ Tick(EngineTickMs, EngineTickMs)

SpecLoop == InitLoop /\ [][NextLoop]_vars

(***************************************************************************)
(* Claims about the store.                                                 *)
(***************************************************************************)
AllDone == \A c \in Callers : pc[c].at = "done"
CalledOn(k) == {c \in Callers : pc[c].key = k}

\* C4: when N callers invoke increment(k) concurrently on one key, the value
\* stored once all of them have returned is exactly N: no update is lost.
C4_IncrementNoLostUpdate ==
    AllDone =>
        \A k \in IncKeySet :
            CalledOn(k) # {} =>
                /\ k \in DOMAIN store
                /\ ParseInt(store[k].value) = Cardinality(CalledOn(k))

\* C5: an increment of a key that has an expiry, made within the key's
\* lifetime, leaves the key's absolute expiry time as it was.
C5_IncrementKeepsExpiry ==
    [][\A c \in Callers :
         (/\ IncResume(c)
          /\ pc[c].key \in DOMAIN store
          /\ TruthyNum(store[pc[c].key].expiresAt)
          /\ now <= store[pc[c].key].expiresAt)
         => store'[pc[c].key].expiresAt = store[pc[c].key].expiresAt]_vars

\* C6: get returns absent when the key is missing or the current time is past
\* its expiresAt, and otherwise the stored value (the value last written by
\* set/increment); a get that finds an expired entry removes it, and any
\* other get leaves the store as it was.
C6_GetContract ==
    [][\A k \in StoreKeySet :
         Get(k) =>
            LET missing == k \notin DOMAIN store
                past == ~missing /\ store[k].expiresAt # Undefined
                                 /\ now > store[k].expiresAt
            IN  /\ ret'.value = (IF missing \/ past THEN Null ELSE store[k].value)
                /\ past => k \notin DOMAIN store'
                /\ ~past => store' = store]_vars

\* C6 witness: a get found an entry in the map, reported it absent and the
\* entry is gone (lazy eviction of an expired entry)
C6_Witness ==
    /\ ret.op = "get" /\ ret.stored /\ ret.value = Null
    /\ ret.key \notin DOMAIN store

\* C7: keys(p*) returns exactly the stored keys that start with p and are not
\* expired at the time of the call.
C7_KeysExactlyPrefix ==
    [][\A p \in StorePrefixes :
         Keys(p \o <<"*">>) =>
            ret'.keys = {k \in DOMAIN store :
                            /\ StartsWith(k, p)
                            /\ ~(store[k].expiresAt # Undefined
                                 /\ now > store[k].expiresAt)}]_vars

(***************************************************************************)
(* Claims about decodeJwt.                                                 *)
(***************************************************************************)
\* the failures decodeJwt looks for, stated on its input
DecInputFails(token, options, t) ==
    \/ ~token.isString
    \/ token.nparts # 3
    \/ token.payload.parse # "object"
    \/ ~options.present
    \/ ExpCheckFails(token.payload, t)
    \/ /\ options.verify
       /\ \/ options.secret = <<>>
          \/ token.header.parse # "object"
          \/ token.header.alg # <<"HS256">>
          \/ token.sig # Hmac(options.secret, token.header, token.payload)
          \/ NbfCheckFails(token.payload, t)

DecHs256WithSecret ==
    /\ decoded.called
    /\ decoded.options.present /\ decoded.options.verify
    /\ decoded.options.secret # <<>>
    /\ decoded.token.isString /\ decoded.token.nparts = 3
    /\ decoded.token.header.parse = "object"
    /\ decoded.token.header.alg = <<"HS256">>
    /\ decoded.token.payload.parse = "object"

\* C10: with verify=true and a secret, an HS256 token is valid exactly when
\* its signature segment is the HMAC-SHA256 of header.payload under that
\* secret and it is neither expired (exp earlier than now) nor not yet valid
\* (nbf later than now); decoded with a different secret, a token signed
\* under the first is invalid with a reason that mentions the signature.
C10_Hs256ValidIffSignedAndInTime ==
    DecHs256WithSecret =>
        LET token == decoded.token
            p == token.payload
            signed == token.sig = Hmac(decoded.options.secret, token.header, p)
            expired == p.exp # Undefined /\ p.exp * MsPerSec < decoded.at
            notYet == p.nbf # Undefined /\ p.nbf * MsPerSec > decoded.at
        IN  /\ decoded.out.isValid = (signed /\ ~expired /\ ~notYet)
            /\ signed =>
                 \A other \in Secrets \ {decoded.options.secret} :
                    LET r == DecodeJwt(token, [decoded.options EXCEPT !.secret = other],
                                       decoded.at)
                    IN  ~r.isValid /\ Includes(r.invalidReason, "signature")

\* a call of decodeJwt on a token of three segments whose payload segment
\* decodes and parses to a claims object
DecWellFormed ==
    /\ decoded.called
    /\ decoded.token.isString /\ decoded.token.nparts = 3
    /\ decoded.token.payload.parse = "object"

\* C11: a structurally well-formed token whose exp claim is present and
\* earlier than the current time is returned with isValid=false, whether
\* verify is true or false and whatever the secret is.
C11_ExpiredAlwaysInvalid ==
    (/\ DecWellFormed
     /\ decoded.token.payload.exp # Undefined
     /\ decoded.token.payload.exp * MsPerSec < decoded.at)
        => ~decoded.out.isValid

RECURSIVE SumScores(_)
SumScores(rs) == IF rs = <<>> THEN 0 ELSE rs[1].score + SumScores(Tail(rs))

EnabledCount(rules) == Cardinality({i \in 1..Len(rules) : rules[i].enabled})

C2_BlockModeThreshold ==
    (result.called /\ engine.mode = "BLOCK") =>
        result.decision = (IF result.totalScore >= engine.blockThreshold
                           THEN "BLOCK" ELSE "ALLOW")

\* C2 witness: mode Block, the total exactly on a positive threshold, blocked
C2_Witness ==
    /\ result.called /\ engine.mode = "BLOCK"
    /\ engine.blockThreshold > 0
    /\ result.totalScore = engine.blockThreshold
    /\ result.decision = "BLOCK"

\* C3: totalScore is the exact sum of the scores of ruleResults; every enabled
\* rule has its entry, and the entry of a rule whose analyze threw has score 0.
C3_TotalIsSumOfScores ==
    result.called =>
        /\ result.totalScore = SumScores(result.ruleResults)
        /\ Len(result.ruleResults) = EnabledCount(engine.rules)
        /\ \A i \in 1..Len(result.ruleResults) :
              result.ruleResults[i].error => result.ruleResults[i].score = 0

\* C3 witness: one rule threw and its entry is there with score 0, while
\* another rule of the same analysis scored
C3_Witness ==
    /\ result.called
    /\ \E i, j \in 1..Len(result.ruleResults) :
          /\ result.ruleResults[i].error
          /\ result.ruleResults[i].score = 0
          /\ result.ruleResults[j].score > 0
    /\ result.totalScore > 0

HasDuplicateNames(rules) ==
    /\ rules.kind = "array"
    /\ \E i, j \in 1..Len(rules.list) : i < j /\ rules.list[i].name = rules.list[j].name

HasUnnamedRule(rules) ==
    /\ rules.kind = "array"
    /\ \E i \in 1..Len(rules.list) : rules.list[i].name = ""

\* the first rule of the list that has no name or the name of an earlier rule
FirstBadRule(rules) ==
    CHOOSE j \in 1..Len(rules.list) :
        /\ \/ rules.list[j].name = ""
           \/ \E i \in 1..(j - 1) : rules.list[i].name = rules.list[j].name
        /\ \A k \in 1..(j - 1) :
              /\ rules.list[k].name # ""
              /\ \A i \in 1..(k - 1) : rules.list[i].name # rules.list[k].name

RECURSIVE FirstViolated(_)
FirstViolated(checks) ==
    IF checks = <<>> THEN "OK"
    ELSE IF checks[1][2] THEN checks[1][1]
    ELSE FirstViolated(Tail(checks))

SecretMissing(c) == c.verifySignature /\ c.jwtSecret = <<>>
OutOfRange(c) == c.blockThreshold.def /\ (c.blockThreshold.n < 0 \/ c.blockThreshold.n > 100)

\* C13: validateConfig, and with it the construction of the engine, rejects
\* every config with blockThreshold < 0 or > 100, with two rules of the same
\* name, or with verifySignature=true and no jwtSecret, and accepts an
\* otherwise well-formed config whose rules list is empty.
C13_ValidateRejects ==
    engine.tried =>
        LET c == engine.config
        IN  /\ (c.present /\ (OutOfRange(c) \/ HasDuplicateNames(c.rules) \/ SecretMissing(c)))
                  => (~engine.constructed /\ engine.error # "OK")
            /\ (/\ c.present /\ c.mode \in {"OBSERVE", "BLOCK"}
                /\ c.blockThreshold.def /\ ~OutOfRange(c)
                /\ c.rules = [kind |-> "array", list |-> <<>>]
                /\ c.store /\ ~SecretMissing(c))
                  => (engine.constructed /\ engine.error = "OK")

\* C13 witness: the limit 101 alone made the construction fail
C13_Witness ==
    /\ engine.tried /\ ~engine.constructed
    /\ engine.config.blockThreshold = [def |-> TRUE, n |-> 101]
    /\ engine.config.rules = [kind |-> "array", list |-> <<>>]
    /\ engine.config.store /\ ~SecretMissing(engine.config)
    /\ engine.error = "CONFIG_THRESHOLD_OUT_OF_RANGE"

\* C14, as the code has it: when a config violates several checks at once,
\* validateConfig raises the error of the earliest violated check in this
\* order: config present; mode present; blockThreshold present; rules
\* present; store present; blockThreshold in [0,100]; rules a list; then rule
\* by rule in list order, the name non-empty and not the name of an earlier
\* rule; verifySignature implies jwtSecret.
C14_FirstViolatedCheckInCodeOrder ==
    engine.tried =>
        LET c == engine.config
            badName == c.rules.kind = "array"
                       /\ (HasUnnamedRule(c.rules) \/ HasDuplicateNames(c.rules))
        IN  engine.error = FirstViolated(<<
                <<"CONFIG_MISSING", ~c.present>>,
                <<"CONFIG_MODE_MISSING", c.mode = "">>,
                <<"CONFIG_THRESHOLD_MISSING", ~c.blockThreshold.def>>,
                <<"CONFIG_RULES_MISSING", c.rules.kind = "missing">>,
                <<"CONFIG_STORE_MISSING", ~c.store>>,
                <<"CONFIG_THRESHOLD_OUT_OF_RANGE", OutOfRange(c)>>,
                <<"CONFIG_RULES_NOT_ARRAY", c.rules.kind # "array">>,
                <<"CONFIG_RULE_NAME_MISSING",
                  badName /\ c.rules.list[FirstBadRule(c.rules)].name = "">>,
                <<"CONFIG_RULE_NAME_DUPLICATE", badName>>,
                <<"CONFIG_JWT_SECRET_MISSING", SecretMissing(c)>> >>)

\* C14 witness: a threshold out of range together with a missing store
C14_Witness ==
    /\ engine.tried
    /\ engine.config.present /\ engine.config.mode # ""
    /\ OutOfRange(engine.config)
    /\ engine.config.rules.kind # "missing"
    /\ ~engine.config.store
    /\ engine.error = "CONFIG_STORE_MISSING"

\* C14, as stated: the error raised is that of the earliest violated check in
\* the order config present; mode present; blockThreshold present and in
\* [0,100]; rules present and a list; every rule name non-empty; rule names
\* unique; store present; verifySignature implies jwtSecret.
C14_FirstViolatedCheckInStatedOrder ==
    engine.tried =>
        LET c == engine.config
        IN  engine.error = FirstViolated(<<
                <<"CONFIG_MISSING", ~c.present>>,
                <<"CONFIG_MODE_MISSING", c.mode = "">>,
                <<"CONFIG_THRESHOLD_MISSING", ~c.blockThreshold.def>>,
                <<"CONFIG_THRESHOLD_OUT_OF_RANGE", OutOfRange(c)>>,
                <<"CONFIG_RULES_MISSING", c.rules.kind = "missing">>,
                <<"CONFIG_RULES_NOT_ARRAY", c.rules.kind # "array">>,
                <<"CONFIG_RULE_NAME_MISSING", HasUnnamedRule(c.rules)>>,
                <<"CONFIG_RULE_NAME_DUPLICATE", HasDuplicateNames(c.rules)>>,
                <<"CONFIG_STORE_MISSING", ~c.store>>,
                <<"CONFIG_JWT_SECRET_MISSING", SecretMissing(c)>> >>)

\* C15: the construction fails for every config whose mode is missing or is
\* not one of the two modes OBSERVE and BLOCK; no engine runs with another
\* mode value.
C15_OnlyTheTwoModes ==
    /\ (engine.tried /\ engine.config.mode \notin {"OBSERVE", "BLOCK"})
          => ~engine.constructed
    /\ (engine.constructed /\ result.called)
          => engine.mode \in {"OBSERVE", "BLOCK"}

(***************************************************************************)
(* Claims about errors in the rules and in the engine.                     *)
(***************************************************************************)
HasThrowingRule(eng) ==
    \E i \in 1..Len(eng.rules) : eng.rules[i] = [name |-> "ThrowingRule", enabled |-> TRUE]

\* the engine with ZeroRule in the place of ThrowingRule
ZeroTwin(eng) ==
    [eng EXCEPT !.rules =
        [i \in 1..Len(eng.rules) |->
            IF eng.rules[i].name = "ThrowingRule"
            THEN [eng.rules[i] EXCEPT !.name = "ZeroRule"] ELSE eng.rules[i]]]

\* the enabled rules of the engine, in order
RECURSIVE EnabledRules(_)
EnabledRules(rules) ==
    IF rules = <<>> THEN <<>>
    ELSE IF rules[1].enabled THEN <<rules[1]>> \o EnabledRules(Tail(rules))
    ELSE EnabledRules(Tail(rules))

\* C16: when the analyze of one rule throws, the engine records a score-0
\* result named after that rule, still invokes every later enabled rule and
\* returns an AnalysisResult; the scores of the other rules, the total, the
\* decision and the store are those of the same analysis with a rule
\* returning 0 in the place of the failing one.
C16_ThrowingRuleIsolated ==
    [][\A req \in EngineRequests, down \in BOOLEAN :
          (HasThrowingRule(engine) /\ AnalyzeRequest(req, down)) =>
              LET twin == EngineAnalyzeRequest(ZeroTwin(engine), req, store, now, down)
                  rules == EnabledRules(engine.rules)
              IN  /\ result'.called
                  /\ Len(result'.ruleResults) = Len(rules)
                  /\ \A i \in 1..Len(rules) :
                        /\ result'.ruleResults[i].ruleName = rules[i].name
                        /\ result'.ruleResults[i].score = twin.ruleResults[i].score
                        /\ rules[i].name = "ThrowingRule" =>
                              /\ result'.ruleResults[i].error
                              /\ result'.ruleResults[i].score = 0
                  /\ result'.totalScore = twin.totalScore
                  /\ result'.decision = twin.decision
                  /\ store' = twin.store]_vars

\* C16 witness: a rule threw and a rule after it ran and scored
C16_Witness ==
    /\ result.called
    /\ \E i, j \in 1..Len(result.ruleResults) :
          /\ i < j
          /\ result.ruleResults[i] =
                [ruleName |-> "ThrowingRule", score |-> 0, error |-> TRUE]
          /\ result.ruleResults[j].score > 0

\* C17: for each of the nine built-in rules, when the store operations it
\* calls fail, the rule's own analyze does not throw: it returns a score-0
\* result.
C17_RulesCatchStoreFailures ==
    (result.called /\ result.down /\ engine.rules = BuiltInRules) =>
        \A i \in 1..Len(result.ruleResults) :
            /\ ~result.ruleResults[i].error
            /\ result.ruleResults[i].ruleName # "PrivilegeEndpointWeighting"
                  => result.ruleResults[i].score = 0

\* C18: every call of analyzeRequest or analyze either returns an
\* AnalysisResult or raises one WafError with code ENGINE_ANALYSIS_ERROR; no
\* other error leaves the engine, and it is raised for an argument the engine
\* cannot read only, never for an exception thrown inside a rule.
C18_OnlyEngineAnalysisError ==
    result.n > 0 =>
        IF result.nullArgument
        THEN ~result.called /\ result.raised = "ENGINE_ANALYSIS_ERROR"
        ELSE result.called /\ result.raised = "none"

\* C18 witness: a call raised the engine's error while the store was failing
\* and a rule of the engine throws on every call
C18_Witness ==
    /\ result.n > 0 /\ ~result.called
    /\ result.raised = "ENGINE_ANALYSIS_ERROR"
    /\ result.down /\ HasThrowingRule(engine)

(***************************************************************************)
(* Claims about the middleware.                                            *)
(***************************************************************************)
\* C19: for every request carrying a token, if the engine raises during the
\* analysis the middleware lets the request through: it calls next() exactly
\* once and sends neither 403 nor another error response.
C19_FailOpen ==
    (ret.op = "middleware" /\ ret.hasToken /\ ret.raised) =>
        /\ ret.answer.nextCalls = 1
        /\ ret.answer.status = 0
        /\ ~ret.answer.onBlocked

\* C19 witness: the engine of a middleware in BLOCK mode raised and the
\* request went through
C19_Witness ==
    /\ ret.op = "middleware" /\ ret.hasToken /\ ret.raised
    /\ engine.mode = "BLOCK"
    /\ ret.answer = Answer(1, 0, FALSE, FALSE)

CountedRule == engine.rules[1].name
\* every request so far was made within the window of the first
AllWithinWindow == ret.at - ret.first <= WindowOf(CountedRule) * MsPerSec

\* C21: ExpiredTokenFlood, for invalid events with an expired reason from
\* one IP that all fall within 60 s of the first: the k-th event scores 0 for
\* k = 1..4 and 30 for every k >= 5.
C21_FloodScoresFromFifth ==
    (CountedRule = "ExpiredTokenFlood" /\ result.called /\ AllWithinWindow) =>
        result.totalScore = IF result.n >= 5 THEN 30 ELSE 0

\* C24: every counting rule sets the TTL of its key on the call whose
\* post-increment count is 1 only: a later counted event leaves the key with
\* an expiry, and with one that is not later than it was before the event.
C24_LaterEventsKeepExpiry ==
    (result.called /\ ret.count > 1) =>
        /\ ret.after # Undefined
        /\ ret.after <= ret.before

\* the threshold and the score of the five rules of C29
ThresholdOf(name) ==
    CASE name = "InvalidSignatureSpike" -> [count |-> 10, score |-> 40]
      [] name = "RefreshEndpointAbuse" -> [count |-> 20, score |-> 35]
      [] name = "TokenReplayDetection" -> [count |-> 30, score |-> 25]
      [] name = "AlgorithmConfusionRule" -> [count |-> 3, score |-> 40]
      [] name = "HeaderForgeryRule" -> [count |-> 2, score |-> 35]

\* C29: for InvalidSignatureSpike, RefreshEndpointAbuse, TokenReplayDetection,
\* AlgorithmConfusion and HeaderForgery, the k-th qualifying event for one key
\* within the window scores the rule's score if and only if k is at least the
\* rule's threshold, and 0 otherwise.
C29_InclusiveThreshold ==
    (CountedRule # "ExpiredTokenFlood" /\ result.called /\ AllWithinWindow) =>
        result.totalScore = IF result.n >= ThresholdOf(CountedRule).count
                            THEN ThresholdOf(CountedRule).score ELSE 0

(***************************************************************************)
(* Claims about the combined scenario (SpecCombined).                      *)
(***************************************************************************)
\* C22: with rules MultiIpTokenUse, PrivilegeEndpointWeighting and
\* TokenReplayDetection on a fresh store, mode BLOCK and threshold 80, one
\* jti: after two requests from two distinct IPs and 30 requests from a
\* third, all to an admin path within the rule windows, the last request has
\* totalScore 45 + 20 + 25 = 90 and decision BLOCK.
C22_CombinedScenarioBlocks ==
    (/\ engine.mode = "BLOCK"
     /\ result.called /\ result.n = 32
     /\ ret.at - ret.first <= 60 * MsPerSec) =>
        /\ result.totalScore = 90
        /\ result.decision = "BLOCK"

(***************************************************************************)
(* Claims about the blacklist (SpecBlacklist).                             *)
(***************************************************************************)
\* C23: BlacklistTokenRule scores a request that carries jti J with 50 if and
\* only if J is blacklisted at that moment: addToBlacklist(J) was called, its
\* TTL has not elapsed and removeFromBlacklist(J) was not called since.
C23_ScoresIffBlacklisted ==
    result.called => (result.totalScore = 50 <=> ret.listed)

(***************************************************************************)
(* Claims about the order of the rules (SpecOrder).                        *)
(***************************************************************************)
\* C25: the analysis of a request does not depend on the order of the rule
\* list: an engine whose list is a permutation of the engine's list returns,
\* for the same request on the same store, the same totalScore and the same
\* decision, and leaves the store in the same state.
C25_RuleOrderIrrelevant ==
    result.called =>
        /\ ret.raised = "none"
        /\ ret.totalScore = result.totalScore
        /\ ret.decision = result.decision
        /\ ret.store = ret.after

\* two rules that were moved score, one of them a counting rule that wrote
\* to the store, and a third rule threw
C25_Witness ==
    /\ result.called
    /\ result.decision = "BLOCK"
    /\ ret.after # EmptyStore
    /\ \E i, j \in ret.moved :
          /\ i # j
          /\ result.ruleResults[i].score > 0
          /\ result.ruleResults[j].score > 0
          /\ result.ruleResults[i].ruleName = "HeaderForgeryRule"
    /\ \E i \in ret.moved : result.ruleResults[i].error

BlockedWithNotifiers ==
    /\ result.called /\ result.decision = "BLOCK"
    /\ engine.notificationRules.onBlock
    /\ engine.notifiers # <<>>

\* C27: on an engine configured with notifiers and notificationRules.onBlock,
\* every analysis that ends in decision BLOCK is followed by a notification
\* delivered to each configured notifier.
C27_BlockIsNotified ==
    BlockedWithNotifiers ~> (\A i \in DOMAIN decoded : decoded[i] > 0)

(***************************************************************************)
(* Claims about the sweep (SpecSweep).                                     *)
(***************************************************************************)
\* C28: what the store returns does not depend on the moments of the sweep:
\* for every sequence of get, set, increment, delete, expire and keys calls,
\* every get and every keys returns what it returns in the run where the
\* sweep never runs.
C28_SweepUnobservable ==
    /\ ret.op = "get" => ret.value = ret.unswept
    /\ ret.op = "keys" => ret.keys = ret.unswept

(***************************************************************************)
(* Claims about MultiIpTokenUse (SpecMultiIp).                             *)
(***************************************************************************)
\* C30: MultiIpTokenUse scores a request that carries jti J with 45 if and
\* only if the number of distinct IPs that used J within the last 600 s, the
\* current one included, is at least 3, and with 0 otherwise; requests from
\* one or two IPs score 0 however often they are repeated.
C30_ScoresIffThreeIps ==
    result.called =>
        result.totalScore = IF ret.distinct >= 3 THEN 45 ELSE 0

(***************************************************************************)
(* Claims about the end of a window (SpecCount).                           *)
(***************************************************************************)
FixedWindowRules ==
    {"ExpiredTokenFlood", "InvalidSignatureSpike", "RefreshEndpointAbuse",
     "TokenReplayDetection"}

\* C31: for ExpiredTokenFlood, InvalidSignatureSpike, RefreshEndpointAbuse and
\* TokenReplayDetection, once the rule's window has elapsed since the event
\* that took the key's count to 1, the next qualifying event for the key
\* counts as 1 again and scores 0, whatever happened inside the window.
C31_WindowIsFixed ==
    (/\ CountedRule \in FixedWindowRules
     /\ result.called
     /\ ret.elapsed # Undefined
     /\ ret.elapsed > WindowOf(CountedRule) * MsPerSec) =>
        /\ ret.count = 1
        /\ result.totalScore = 0

(***************************************************************************)
(* Claims about concurrent counting (SpecFlood).                           *)
(***************************************************************************)
\* C32: when N requests with expired tokens from one IP are analysed
\* concurrently on one store, their post-increment counts are the distinct
\* values 1..N and the counter ends at N; with N >= 5 at least one of them
\* scores 30.
C32_ConcurrentCountsDistinct ==
    (\A c \in FloodCallers : pc[c].at = "scored") =>
        /\ {pc[c].newValue : c \in FloodCallers} = 1..Cardinality(FloodCallers)
        /\ CounterOf(store, FloodKey) = Cardinality(FloodCallers)
        /\ \E c \in FloodCallers : result.scores[c] = 30

(***************************************************************************)
(* Claims about the rule loop.                                             *)
(***************************************************************************)
\* the trace of a call in which the rules `rules` ran one after the other:
\* each is called and settles before the next is called
RECURSIVE OneAtATime(_)
OneAtATime(rules) ==
    IF rules = <<>> THEN <<>>
    ELSE <<"called", rules[1].name, "settled", rules[1].name>>
            \o OneAtATime(Tail(rules))

RECURSIVE Flat(_)
Flat(trace) ==
    IF trace = <<>> THEN <<>>
    ELSE <<trace[1].step, trace[1].name>> \o Flat(Tail(trace))

\* C33: within one analyze call the enabled rules are invoked one at a time
\* in the order of config.rules: a rule is called only after the previous one
\* has settled, the store is written in that order, and ruleResults holds
\* the results in that order.
C33_RulesRunInDeclaredOrder ==
    LET expected == OneAtATime(EnabledRules(engine.rules))
        names == [k \in 1..Len(EnabledRules(engine.rules)) |->
                     EnabledRules(engine.rules)[k].name]
    IN  /\ Len(Flat(ret)) <= Len(expected)
        /\ Flat(ret) = SubSeq(expected, 1, Len(Flat(ret)))
        /\ pc.at = "loop" =>
              /\ Len(pc.ruleResults) = Len(SelectSeq(ret, LAMBDA e : e.step = "settled"))
              /\ \A k \in 1..Len(pc.ruleResults) :
                    pc.ruleResults[k].ruleName = names[k]
        /\ (pc.at = "idle" /\ result.called) =>
              /\ Flat(ret) = expected
              /\ [k \in 1..Len(result.ruleResults) |->
                     result.ruleResults[k].ruleName] = names

\* C33 witness: a call has returned in which two rules wrote to the store
C33_Witness ==
    /\ pc.at = "idle" /\ result.called
    /\ Len(result.ruleResults) >= 2
    /\ \E i, j \in 1..Len(ret) :
          /\ i < j
          /\ ret[i].step = "settled" /\ ret[i].wrote
          /\ ret[j].step = "settled" /\ ret[j].wrote
          /\ ret[i].name # ret[j].name

(***************************************************************************)
(* Claims about the rules that key on the jti.                             *)
(***************************************************************************)
JtiRules == {"MultiIpTokenUse", "TokenReplayDetection", "BlacklistTokenRule"}

\* C34: for an event without a jti (no payload, or a payload without jti),
\* MultiIpTokenUse, TokenReplayDetection and BlacklistTokenRule return score 0
\* and perform no store operation: the store is left as it was, also when it
\* holds expired entries and when it rejects every operation.
C34_NoJtiNoStoreAccess ==
    (pc.at = "loop" /\ JtiOf(pc.event) = <<>>) =>
        /\ \A name \in JtiRules, down \in BOOLEAN :
              RuleAnalyze(name, pc.event, store, now, down)
                  = Ran([ruleName |-> name, score |-> 0], store)
        /\ \A m \in 1..Len(pc.ruleResults) :
              ret[2 * m].name \in JtiRules =>
                  /\ ~ret[2 * m].wrote
                  /\ pc.ruleResults[m].score = 0
                  /\ ~pc.ruleResults[m].error

\* C34 witness: the three rules have settled on an event without a payload
\* while the store holds an entry whose expiry has passed
C34_Witness ==
    /\ pc.at = "loop" /\ pc.event.payload.parse # "object"
    /\ JtiRules \subseteq {ret[k].name : k \in {j \in 1..Len(ret) : ret[j].step = "settled"}}
    /\ \E k \in DOMAIN store : Expired(store[k], now)

(***************************************************************************)
(* Claims about expire (SpecStore).                                        *)
(***************************************************************************)
\* C35: expire(key, ttl) does nothing whenever get(key) would return absent
\* at that moment, the case of a key whose expiry has passed but which is
\* still in the map included: the map is left as it was and a get that
\* follows still returns absent.
C35_ExpireNeverRevives ==
    [][\A k \in StoreKeySet, ttl \in StoreTtls :
          (Expire(k, ttl) /\ StoreGet(store, k, now).value = Null) =>
              /\ store' = store
              /\ StoreGet(store', k, now').value = Null]_vars

(***************************************************************************)
(* Claims about the order of the checks of decodeJwt (SpecDecode).         *)
(***************************************************************************)
\* the reason of the first check that fails on (token, options) at time t, in
\* the order secret, algorithm, signature, exp, nbf; <<>> when none fails
FirstFailingCheck(token, options, t) ==
    LET p == token.payload
    IN  IF options.secret = <<>> THEN ReasonSecret
        ELSE IF token.header.alg # <<"HS256">> THEN ReasonAlg(token.header.alg)
        ELSE IF token.sig # Hmac(options.secret, token.header, p)
             THEN ReasonSignature
        ELSE IF p.exp # Undefined /\ p.exp * MsPerSec < t THEN ReasonExpired
        ELSE IF p.nbf # Undefined /\ p.nbf * MsPerSec > t THEN ReasonNotYet
        ELSE <<>>

\* a call with verify=true on a token of three segments whose header and
\* payload segments parse to objects
DecVerified ==
    /\ DecWellFormed
    /\ decoded.options.present /\ decoded.options.verify
    /\ decoded.token.header.parse = "object"

\* C36: with verify=true the invalidReason is that of the first failing check
\* in the order: secret missing, algorithm other than HS256 (none included),
\* signature mismatch, expired, not yet valid, and the token is valid exactly
\* when no check fails; so an expired token with a wrong signature is reported
\* as a signature failure and a token with alg none is never valid.
C36_FirstFailingCheckReported ==
    DecVerified =>
        LET first == FirstFailingCheck(decoded.token, decoded.options, decoded.at)
        IN  /\ decoded.out.isValid = (first = <<>>)
            /\ ~decoded.out.isValid => decoded.out.invalidReason = first
            /\ decoded.token.header.alg = <<"none">> => ~decoded.out.isValid

(***************************************************************************)
(* Claims about the life of the counter keys (SpecSilence).                *)
(***************************************************************************)
\* C37: every counter key written by a counting rule carries an expiry after
\* every request, and once the counted requests stop and time advances the
\* key is absent: a get of it returns nothing from some moment on.
C37_CounterKeysDrain ==
    /\ [](CounterKeyOf(CountedRule) \in DOMAIN store =>
              ExpiresAtOf(store, CounterKeyOf(CountedRule)) # Undefined)
    /\ <>[](StoreGet(store, CounterKeyOf(CountedRule), now).value = Null)

(***************************************************************************)
(* Claims about engines that differ in mode and threshold (SpecTwins).     *)
(***************************************************************************)
\* C38: two engines with the same rules that differ in mode and
\* blockThreshold only, fed the same requests from equal stores, return the
\* same totalScore and the same ruleResults and leave equal stores after
\* every request: mode and threshold bear on the decision only.
C38_ModeOnlyChangesDecision ==
    /\ store = decoded.store
    /\ result.called = ret.called
    /\ result.called =>
          /\ result.totalScore = ret.totalScore
          /\ result.ruleResults = ret.ruleResults

\* C38 witness: the two engines scored a request alike, wrote to their
\* stores and decided differently
C38_Witness ==
    /\ result.called /\ ret.called
    /\ result.totalScore > 0
    /\ store # EmptyStore
    /\ result.decision # ret.decision
    /\ engine.mode # decoded.engine.mode

(***************************************************************************)
(* Claims about the isolation of the jtis in MultiIpTokenUse (SpecMultiIp).*)
(***************************************************************************)
\* the keys under which the rule records the IPs of jti
IpKeysOf(jti) == {<<"waf:multi_ip:">> \o jti \o <<":">> \o ip : ip \in MultiIpIps}

\* C39: an IP recorded for one jti is never counted toward another jti: the
\* keys the rule counts for the jti of a request are keys recorded for that
\* jti, so a request scores 45 only if its own jti was used from at least
\* three IPs, also when a jti contains ':' or is a prefix of another jti.
C39_JtisIsolated ==
    result.called =>
        /\ StoreKeys(store, <<"waf:multi_ip:">> \o ret.jti \o <<":", "*">>, now)
               \subseteq IpKeysOf(ret.jti)
        /\ result.totalScore = 45 =>
               Cardinality({ip \in MultiIpIps : <<ret.jti, ip>> \in DOMAIN decoded}) >= 3

(***************************************************************************)
(* Claims about BlacklistManager (SpecBlacklist).                          *)
(***************************************************************************)
\* C40: after every sequence of addToBlacklist, removeFromBlacklist and rule
\* evaluations, getAllBlacklisted returns exactly the jtis for which
\* isBlacklisted is true, and the attempt counters of the rule make no jti
\* blacklisted: a jti for which isBlacklisted is true was added and not
\* removed since.
C40_BlacklistSelfConsistent ==
    /\ \A jti \in BlacklistJtis \cup GetAllBlacklisted(store, now) :
          jti \in GetAllBlacklisted(store, now) <=> IsBlacklisted(store, jti, now)
    /\ \A jti \in BlacklistJtis :
          IsBlacklisted(store, jti, now) => jti \in DOMAIN decoded

====
